---------------------------- MODULE Spec2Model ----------------------------
(***************************************************************************)
(* P&L reconciliation agent (src/app.py): the Sheet Mutator                *)
(* (execute_sheet_action), the Sheet Loader (load_master_reconciliation),  *)
(* the Search Utility (search_in_dataframe), the partner-name branches of  *)
(* the two classifier variants, and the conversation loop.                 *)
(*                                                                         *)
(* The live sheet is a grid, row 1 its header.  A cell is a record         *)
(* [num, n, s]: a number n (num = TRUE) or a text s (num = FALSE).  A      *)
(* remote call (open the worksheet, read the grid, write one cell) may     *)
(* raise; `fault` is the index of the remote call of one                   *)
(* execute_sheet_action that raises, 0 when none does.                     *)
(***************************************************************************)
EXTENDS Integers, Sequences, FiniteSets, TLC

VARIABLES
    sheet,        \* the live "Master Reconciliation" worksheet (grid, row 1 = header)
    results_df,   \* st.session_state.results_df: the Row Table snapshot
    messages,     \* st.session_state.messages: the transcript
    session,      \* st.session_state.connected, and whether results_df is not None
    call,         \* the last execute_sheet_action: its arguments, grid before, writes, results
    steps,        \* number of operations so far
    s_df,         \* the table given to search_in_dataframe
    s_query,      \* the query given to search_in_dataframe, or the message classified
    s_out,        \* what the last search or classification returned
    inflight      \* per session, the execute_sheet_action that has read the sheet and
                  \* not yet sent all its cell writes

vars ==
    <<sheet, results_df, messages, session, call, steps, s_df, s_query, s_out, inflight>>
sheetVars == <<sheet, results_df, messages, session, call, steps>>
uiVars == <<messages, session>>
searchVars == <<s_df, s_query, s_out, inflight>>

-----------------------------------------------------------------------------
(* Bounds *)

MaxRows == 2        \* data rows of the initial live sheet
MaxExecSteps == 2   \* operations in one behaviour of SpecExec

-----------------------------------------------------------------------------
(* Cells and the grid *)

Num(x) == [num |-> TRUE, n |-> x, s |-> ""]
Str(x) == [num |-> FALSE, n |-> 0, s |-> x]
Blank == Str("")

Range(f) == {f[i] : i \in DOMAIN f}

Abs(x) == IF x < 0 THEN -x ELSE x

\* ws.update_cell(r, c, v): one cell; the grid widens when c lies right of it
UpdateCell(g, r, c, v) ==
    LET wide == [i \in 1..Len(g) |->
                    IF c > Len(g[i])
                    THEN g[i] \o [j \in 1..(c - Len(g[i])) |-> Blank]
                    ELSE g[i]]
    IN [wide EXCEPT ![r][c] = v]

RECURSIVE ApplyWrites(_, _)
ApplyWrites(g, ws) ==
    IF ws = <<>> THEN g
    ELSE ApplyWrites(UpdateCell(g, Head(ws).r, Head(ws).c, Head(ws).v), Tail(ws))

\* list.index(x): the first position of x
IndexOf(seq, x) == CHOOSE i \in 1..Len(seq) :
                      /\ seq[i] = x
                      /\ \A j \in 1..(i - 1) : seq[j] # x

\* the text get_all_values() gives for a cell of the first column
KeyText(cell) == IF cell.num THEN "#" ELSE cell.s


-----------------------------------------------------------------------------
(* The Row Table: load_master_reconciliation *)

MCF_NUMBER == "MCF Number"
NET_PL == "Net Profit/Loss"
ADJUSTED_PL == "Adjusted P&L"
ADJUSTMENT_NOTE == "Adjustment Note"
REVIEW_STATUS == "Review Status"
REVIEW_DATE == "Review Date"

\* pd.to_numeric(col, errors='coerce').fillna(0): a number stays, anything else is 0
ToNumeric(cell) == IF cell.num THEN cell.n ELSE 0

\* the column of the grid headed `name` (0 when there is none): get_all_records
\* keys each record by the header row
ColumnOf(g, name) ==
    IF Str(name) \in Range(g[1]) THEN IndexOf(g[1], Str(name)) ELSE 0

CP2_NAME == "CP2 Name"
ACTUAL_CP2_PAYOUT == "Actual CP2 Payout"
LOAN_AMOUNT == "Loan Amount"

\* numeric_cols (lines 658-659)
NumericCols ==
    {"Net Profit/Loss", "Expected CP1 Payout", "Actual CP1 Payout",
     "Expected CP2 Payout", "Actual CP2 Payout", "Taxable Amount (Invoice)"}

\* the value the Row Table holds for a cell of column `name` (lines 660-662): coerced
\* when the column is one of numeric_cols, as get_all_records gave it otherwise
LoadCell(name, cell) == IF name \in NumericCols THEN Num(ToNumeric(cell)) ELSE cell

\* load_master_reconciliation: one record per data row.  The record carries the
\* columns the model follows: the key and Net Profit/Loss, and, on a sheet that has
\* them, CP2 Name, Actual CP2 Payout and Loan Amount.
LoadMasterReconciliation(g) ==
    LET kc == ColumnOf(g, MCF_NUMBER)
        pc == ColumnOf(g, NET_PL)
        Field(i, name) == LoadCell(name, g[i + 1][ColumnOf(g, name)])
    IN [i \in 1..(Len(g) - 1) |->
           IF ColumnOf(g, LOAN_AMOUNT) = 0
           THEN [mcf |-> KeyText(g[i + 1][kc]),
                 pl  |-> ToNumeric(g[i + 1][pc])]
           ELSE [mcf |-> KeyText(g[i + 1][kc]),
                 pl  |-> Field(i, NET_PL).n,
                 cp2 |-> Field(i, CP2_NAME),
                 cp2_actual |-> Field(i, ACTUAL_CP2_PAYOUT).n,
                 loan |-> Field(i, LOAN_AMOUNT)]]

-----------------------------------------------------------------------------
(* The Sheet Mutator: execute_sheet_action *)

Result(status, msg, col) == [status |-> status, msg |-> msg, col |-> col]
ErrException == Result("error", "exception", "")

Write(r, c, v) == [r |-> r, c |-> c, v |-> v]

\* df[mask]: the index labels of the rows the mask keeps, in table order
RECURSIVE Keep(_, _)
Keep(n, mask) ==
    IF n = 0 THEN <<>>
    ELSE IF n \in mask THEN Append(Keep(n - 1, mask), n) ELSE Keep(n - 1, mask)

\* What one action does when no remote call raises: the cell writes in order, the
\* returned list, and whether the code itself raised (before any write).
Plan(writes, results, raised) ==
    [writes |-> writes, results |-> results, raised |-> raised]

\* a lookup that ignores the key: every row of the snapshot
DfRowsAll(df, key) == df

\* results_df[results_df['MCF Number'] == key]
DfRows(df, key) ==
    LET Test(rec) == rec.mcf = key
    IN SelectSeq(df, Test)

\* the scan of cover_loss (lines 704-709): no break, the last matching row wins;
\* 0 stands for None
ScanLast(all_data, key) ==
    LET hits == {i \in 1..Len(all_data) : KeyText(all_data[i][1]) = key}
    IN IF hits = {} THEN 0 ELSE CHOOSE i \in hits : \A j \in hits : j <= i

\* the scan of mark_reviewed and update_value (with break): the first matching row
ScanFirst(all_data, key) ==
    LET hits == {i \in 1..Len(all_data) : KeyText(all_data[i][1]) = key}
    IN IF hits = {} THEN 0 ELSE CHOOSE i \in hits : \A j \in hits : i <= j

\* the four cell writes of full coverage (lines 716-719)
FullCoverageWrites(loss_idx, profit_idx, adj_col, note_col, loss_amount, profit_amount) ==
    << Write(loss_idx, adj_col, Num(0)),
       Write(loss_idx, note_col, Str("Covered by")),
       Write(profit_idx, adj_col, Num(profit_amount - loss_amount)),
       Write(profit_idx, note_col, Str("Covered")) >>

\* the four cell writes of partial coverage (lines 734-738)
PartialCoverageWrites(loss_idx, profit_idx, adj_col, note_col, loss_amount, profit_amount) ==
    LET remaining == loss_amount - profit_amount
    IN << Write(loss_idx, adj_col, Num(-remaining)),
          Write(loss_idx, note_col, Str("Partially covered by")),
          Write(profit_idx, adj_col, Num(0)),
          Write(profit_idx, note_col, Str("Partially covered")) >>

\* a header test that finds every column absent
AlwaysAbsent(headers, name) == TRUE

\* `name not in headers` (lines 694, 754)
Absent(headers, name) == Str(name) \notin Range(headers)

\* action_type == "cover_loss" (lines 679-749)
CoverLoss(loss_mcf, profit_mcf, all_data, df) ==
    LET headers == all_data[1]
        loss_row == DfRows(df, loss_mcf)
        profit_row == DfRows(df, profit_mcf)
    IN
    IF loss_row = <<>> \/ profit_row = <<>>
    THEN Plan(<<>>, <<Result("error", "mcf_not_found", "")>>, FALSE)
    ELSE
    LET loss_amount == Abs(loss_row[1].pl)
        profit_amount == profit_row[1].pl
        fresh == Absent(headers, ADJUSTED_PL)
    IN
    IF ~fresh /\ Str(ADJUSTMENT_NOTE) \notin Range(headers)
    THEN Plan(<<>>, <<>>, TRUE)     \* headers.index("Adjustment Note"): ValueError
    ELSE
    LET adj_col == IF fresh THEN Len(headers) + 1 ELSE IndexOf(headers, Str(ADJUSTED_PL))
        note_col == IF fresh THEN Len(headers) + 2 ELSE IndexOf(headers, Str(ADJUSTMENT_NOTE))
        header_writes == IF fresh
                         THEN << Write(1, adj_col, Str(ADJUSTED_PL)),
                                 Write(1, note_col, Str(ADJUSTMENT_NOTE)) >>
                         ELSE <<>>
        loss_idx == ScanLast(all_data, loss_mcf)
        profit_idx == ScanLast(all_data, profit_mcf)
    IN
    IF loss_idx = 0 \/ profit_idx = 0
    THEN Plan(header_writes, <<>>, FALSE)
    ELSE IF profit_amount >= loss_amount
    THEN Plan(header_writes \o FullCoverageWrites(loss_idx, profit_idx, adj_col,
                                   note_col, loss_amount, profit_amount),
              <<Result("success", "covered", "")>>, FALSE)
    ELSE Plan(header_writes \o PartialCoverageWrites(loss_idx, profit_idx, adj_col,
                                   note_col, loss_amount, profit_amount),
              <<Result("warning", "partially_covered", "")>>, FALSE)

\* a loop that appends the success result even when no row matched
MarkRowAlwaysSuccess(i, status_col, date_col) ==
    [writes |-> IF i = 0 THEN <<>>
                ELSE << Write(i, status_col, Str("Reviewed")),
                        Write(i, date_col, Str("timestamp")) >>,
     results |-> <<Result("success", "reviewed", "")>>]

\* a loop that puts the review date in the column before the status
MarkRowDateBefore(i, status_col, date_col) ==
    IF i = 0
    THEN [writes |-> <<>>, results |-> <<>>]
    ELSE [writes |-> << Write(i, status_col, Str("Reviewed")),
                        Write(i, status_col - 1, Str("timestamp")) >>,
          results |-> <<Result("success", "reviewed", "")>>]

\* the loop of mark_reviewed (lines 763-771) reaching row i (0: no row matched)
MarkRow(i, status_col, date_col) ==
    IF i = 0
    THEN [writes |-> <<>>, results |-> <<>>]
    ELSE [writes |-> << Write(i, status_col, Str("Reviewed")),
                        Write(i, date_col, Str("timestamp")) >>,
          results |-> <<Result("success", "reviewed", "")>>]

\* action_type == "mark_reviewed" (lines 751-771)
MarkReviewed(mcf, all_data) ==
    LET headers == all_data[1]
        fresh == Absent(headers, REVIEW_STATUS)
        status_col == IF fresh THEN Len(headers) + 1 ELSE IndexOf(headers, Str(REVIEW_STATUS))
        date_col == IF fresh THEN Len(headers) + 2 ELSE status_col + 1
        header_writes == IF fresh
                         THEN << Write(1, status_col, Str(REVIEW_STATUS)),
                                 Write(1, date_col, Str(REVIEW_DATE)) >>
                         ELSE <<>>
        row == MarkRow(ScanFirst(all_data, mcf), status_col, date_col)
    IN Plan(header_writes \o row.writes, row.results, FALSE)

\* update_value without the break: every row carrying the key is written
UpdateValueNoBreak(mcf, column, value, all_data) ==
    LET headers == all_data[1]
        hits == {i \in 1..Len(all_data) : KeyText(all_data[i][1]) = mcf}
    IN
    IF Str(column) \notin Range(headers)
    THEN Plan(<<>>, <<Result("error", "column_not_found", column)>>, FALSE)
    ELSE Plan([k \in 1..Cardinality(hits) |->
                  Write(Keep(Len(all_data), hits)[k], IndexOf(headers, Str(column)), value)],
              [k \in 1..Cardinality(hits) |-> Result("success", "updated", column)],
              FALSE)

\* action_type == "update_value" (lines 773-789)
UpdateValue(mcf, column, value, all_data) ==
    LET headers == all_data[1]
        i == ScanFirst(all_data, mcf)
    IN
    IF Str(column) \notin Range(headers)
    THEN Plan(<<>>, <<Result("error", "column_not_found", column)>>, FALSE)
    ELSE IF i = 0
    THEN Plan(<<>>, <<>>, FALSE)
    ELSE Plan(<< Write(i, IndexOf(headers, Str(column)), value) >>,
              <<Result("success", "updated", column)>>, FALSE)

\* the dispatch on action_type (lines 679, 751, 773); any other type does nothing
ActionPlan(action_type, params, all_data, df) ==
    CASE action_type = "cover_loss" ->
             CoverLoss(params.loss_mcf, params.profit_mcf, all_data, df)
      [] action_type = "mark_reviewed" ->
             MarkReviewed(params.mcf, all_data)
      [] action_type = "update_value" ->
             UpdateValue(params.mcf, params.column, params.value, all_data)
      [] OTHER -> Plan(<<>>, <<>>, FALSE)

\* Remote calls of one action, in order: 1 = spreadsheet.worksheet(), 2 =
\* ws.get_all_values(), 2 + k = the k-th ws.update_cell.
RemoteCalls(plan) == 2 + Len(plan.writes)

\* a sheet that takes the writes of an action only when all of them succeed
WritesRolledBack(plan, fault) ==
    IF fault = 0 THEN plan.writes ELSE <<>>

\* the writes that reach the sheet when remote call `fault` raises (0: none does)
WritesDone(plan, fault) ==
    IF fault = 0 THEN plan.writes
    ELSE IF fault <= 2 THEN <<>>
    ELSE SubSeq(plan.writes, 1, fault - 3)

\* an exception handler that keeps the results gathered before the failure
ReturnedKeepingResults(plan, fault) ==
    IF fault # 0 \/ plan.raised THEN plan.results \o <<ErrException>> ELSE plan.results

\* try ... return results / except Exception: return [error] (lines 674, 791-794)
Returned(plan, fault) ==
    IF fault # 0 \/ plan.raised THEN <<ErrException>> ELSE plan.results

-----------------------------------------------------------------------------
(* Inputs *)

RowKeys == {"K1", "K2"}                  \* keys a row of the sheet may carry
KeyParams == {"K1", "K2", "K3"}          \* keys an action may name ("K3": in no row)
PLValues == {-1000, -500, 0, 400, 1200}  \* Net Profit/Loss of a row
UpdateColumns == {NET_PL, "Payout Status"}   \* "Payout Status": not a header

InitialSheets ==
    {<<<<Str(MCF_NUMBER), Str(NET_PL)>>>> \o rows :
        rows \in [1..MaxRows -> {<<Str(k), Num(p)>> : k \in RowKeys, p \in PLValues}]}

\* session state as initialised (lines 614-623): `spreadsheet` and `model` tell
\* whether the handle and the model object are set, `loaded` whether results_df is
\* a table (not None)
NoSession ==
    [connected |-> FALSE, spreadsheet |-> FALSE, model |-> FALSE, loaded |-> FALSE]

NoCall ==
    [action |-> "none", loss_mcf |-> "", profit_mcf |-> "", mcf |-> "",
     column |-> "", value |-> Blank, fault |-> 0, pre |-> <<>>, df |-> <<>>,
     writes |-> <<>>, post |-> <<>>, results |-> <<>>]

\* the sessions sharing the live sheet
Sessions == {1, 2}

\* a session with no execute_sheet_action under way: `headers` is the header row the
\* last one read, `writes` the cell writes it has still to send, `overlapped` whether
\* one of its actions has run while an action of another session was under way
Idle == [pc |-> "idle", headers |-> <<>>, writes |-> <<>>, overlapped |-> FALSE]
NoFlights == [p \in Sessions |-> Idle]

SearchIdle ==
    /\ inflight = NoFlights
    /\ s_df = <<>>
    /\ s_query = <<>>
    /\ s_out = [op |-> "none", column |-> "", rows |-> <<>>, count |-> 0, entries |-> <<>>]

InitExec ==
    /\ sheet \in InitialSheets
    /\ results_df = LoadMasterReconciliation(sheet)
    /\ messages = <<>>
    /\ session = [connected |-> TRUE, spreadsheet |-> TRUE, model |-> TRUE, loaded |-> TRUE]
    /\ call = NoCall
    /\ steps = 0
    /\ SearchIdle

-----------------------------------------------------------------------------
(* execute_sheet_action as one step (lines 669-794) *)

\* the parameters of a call; the fields an action_type does not read are ""
Params(loss_mcf, profit_mcf, mcf, column, value) ==
    [loss_mcf |-> loss_mcf, profit_mcf |-> profit_mcf, mcf |-> mcf,
     column |-> column, value |-> value]

\* execute_sheet_action(action_type, params, spreadsheet, results_df), remote call
\* `fault` raising: the sheet after it, and the record of the call
ExecuteSheetAction(action_type, params, fault) ==
    \E plan \in {ActionPlan(action_type, params, sheet, results_df)} :
        /\ fault \in 0..RemoteCalls(plan)
        /\ sheet' = ApplyWrites(sheet, WritesDone(plan, fault))
        /\ call' = [action |-> action_type, loss_mcf |-> params.loss_mcf,
                    profit_mcf |-> params.profit_mcf, mcf |-> params.mcf,
                    column |-> params.column, value |-> params.value,
                    fault |-> fault, pre |-> sheet, df |-> results_df,
                    writes |-> WritesDone(plan, fault),
                    post |-> ApplyWrites(sheet, WritesDone(plan, fault)),
                    results |-> Returned(plan, fault)]

FaultRange == 0..8     \* at most 2 + 6 remote calls in one action

ExecCoverLoss ==
    \E lk \in KeyParams, pk \in KeyParams, f \in FaultRange :
        /\ steps < MaxExecSteps
        /\ ExecuteSheetAction("cover_loss", Params(lk, pk, "", "", Blank), f)
        /\ steps' = steps + 1
        /\ UNCHANGED <<results_df, uiVars, searchVars>>

ExecMarkReviewed ==
    \E k \in KeyParams, f \in FaultRange :
        /\ steps < MaxExecSteps
        /\ ExecuteSheetAction("mark_reviewed", Params("", "", k, "", Blank), f)
        /\ steps' = steps + 1
        /\ UNCHANGED <<results_df, uiVars, searchVars>>

ExecUpdateValue ==
    \E k \in KeyParams, col \in UpdateColumns, f \in FaultRange :
        /\ steps < MaxExecSteps
        /\ ExecuteSheetAction("update_value", Params("", "", k, col, Str("v")), f)
        /\ steps' = steps + 1
        /\ UNCHANGED <<results_df, uiVars, searchVars>>

\* load_master_reconciliation(spreadsheet) into the session (lines 1236-1237, 1356-1357)
Reload ==
    /\ steps < MaxExecSteps
    /\ results_df' = LoadMasterReconciliation(sheet)
    /\ steps' = steps + 1
    /\ UNCHANGED <<sheet, uiVars, call, searchVars>>

\* Another user of the shared spreadsheet changes the key of a data row between the
\* load and the write (spec section 5: the snapshot is never re-validated).
ExternalEdit ==
    \E r \in 2..Len(sheet), k \in KeyParams :
        /\ steps < MaxExecSteps
        /\ KeyText(sheet[r][1]) # k
        /\ sheet' = UpdateCell(sheet, r, 1, Str(k))
        /\ steps' = steps + 1
        /\ UNCHANGED <<results_df, uiVars, call, searchVars>>

NextExec ==
    \/ ExecCoverLoss
    \/ ExecMarkReviewed
    \/ ExecUpdateValue
    \/ Reload
    \/ ExternalEdit

SpecExec == InitExec /\ [][NextExec]_vars

-----------------------------------------------------------------------------
(* Overlapping mutations: execute_sheet_action as its remote calls, one step  *)
(* each, in two sessions that share the live sheet (spec section 5: no locking) *)

MaxMutations == 3     \* execute_sheet_action calls begun in one behaviour of SpecRace

\* the actions a session asks for
RaceMutations ==
    { [action |-> "cover_loss", params |-> Params("K1", "K2", "", "", Blank)],
      [action |-> "mark_reviewed", params |-> Params("", "", "K1", "", Blank)] }

\* some session of ps is between its read of the sheet and its last cell write
Underway(ps) == \E q \in ps : inflight[q].pc = "writing"

\* ws.get_all_values() of session p (line 676): the grid is read, and the cell writes
\* of the action follow from it and from the snapshot; none is sent yet
ReadSheet(p) ==
    /\ inflight[p].pc = "idle"
    /\ steps < MaxMutations
    /\ \E m \in RaceMutations :
        \E plan \in {ActionPlan(m.action, m.params, sheet, results_df)} :
            inflight' = [inflight EXCEPT ![p] =
                            [pc |-> IF plan.writes = <<>> THEN "idle" ELSE "writing",
                             headers |-> sheet[1],
                             writes |-> plan.writes,
                             overlapped |-> \/ inflight[p].overlapped
                                            \/ /\ plan.writes # <<>>
                                               /\ Underway(Sessions \ {p})]]
    /\ steps' = steps + 1
    /\ UNCHANGED <<sheet, results_df, uiVars, call, s_df, s_query, s_out>>

\* the next ws.update_cell of session p reaches the live sheet
SendWrite(p) ==
    /\ inflight[p].pc = "writing"
    /\ sheet' = UpdateCell(sheet, Head(inflight[p].writes).r, Head(inflight[p].writes).c,
                           Head(inflight[p].writes).v)
    /\ inflight' = [inflight EXCEPT ![p].writes = Tail(@),
                                    ![p].pc = IF Len(inflight[p].writes) = 1
                                              THEN "idle" ELSE "writing",
                                    ![p].overlapped = @ \/ Underway(Sessions \ {p})]
    /\ UNCHANGED <<results_df, uiVars, call, steps, s_df, s_query, s_out>>

\* the next ws.update_cell of session p raises: the except of lines 793-794 ends the
\* action, the writes not yet sent are never sent
WriteRaises(p) ==
    /\ inflight[p].pc = "writing"
    /\ inflight' = [inflight EXCEPT ![p].writes = <<>>, ![p].pc = "idle"]
    /\ UNCHANGED <<sheet, results_df, uiVars, call, steps, s_df, s_query, s_out>>

InitRace == InitExec

NextRace ==
    \/ \E p \in Sessions : ReadSheet(p)
    \/ \E p \in Sessions : SendWrite(p)
    \/ \E p \in Sessions : WriteRaises(p)

SpecRace == InitRace /\ [][NextRace]_vars

-----------------------------------------------------------------------------
(* Text: a string is a sequence of one-character strings *)

LowerChar(c) == IF c = "A" THEN "a" ELSE IF c = "B" THEN "b" ELSE c

\* str.lower()
Lower(s) == [i \in 1..Len(s) |-> LowerChar(s[i])]

\* str.strip(): leading and trailing whitespace removed
Strip(s) ==
    LET solid == {i \in 1..Len(s) : s[i] # " "}
    IN IF solid = {} THEN <<>>
       ELSE SubSeq(s, CHOOSE i \in solid : \A j \in solid : i <= j,
                      CHOOSE i \in solid : \A j \in solid : j <= i)

\* sub in s
IsSubstring(sub, s) ==
    \E i \in 0..(Len(s) - Len(sub)) : SubSeq(s, i + 1, i + Len(sub)) = sub

\* str.split(): where the whitespace-separated words start, and each word
WordStarts(s) == {i \in 1..Len(s) : s[i] # " " /\ (i = 1 \/ s[i - 1] = " ")}
WordAt(s, i) ==
    SubSeq(s, i, CHOOSE j \in i..Len(s) :
                    /\ \A k \in i..j : s[k] # " "
                    /\ (j = Len(s) \/ s[j + 1] = " "))
SplitWords(s) == {WordAt(s, i) : i \in WordStarts(s)}

-----------------------------------------------------------------------------
(* The Search Utility: search_in_dataframe (lines 796-824) *)

\* the table's columns; search_in_dataframe returns nothing for any other
DfColumns == {"MCF Number", "CP1 Name", "CP2 Name", "Customer Name"}

\* df[column] of row i, as astype(str) gives it
CellText(df, column, i) ==
    IF column = "CP1 Name" THEN df[i].cp1
    ELSE IF column = "CP2 Name" THEN df[i].cp2
    ELSE IF column = "Customer Name" THEN df[i].customer
    ELSE df[i].mcf

\* a search without the exact tier
SearchContainsOnly(df, column, search_term) ==
    IF column \notin DfColumns THEN <<>>
    ELSE
    LET search_term_lower == Strip(Lower(search_term))
        contains_match == {i \in 1..Len(df) :
                              IsSubstring(search_term_lower, Lower(CellText(df, column, i)))}
    IN Keep(Len(df), contains_match)

\* a search without the contains tier
SearchExactOnly(df, column, search_term) ==
    IF column \notin DfColumns THEN <<>>
    ELSE Keep(Len(df), {i \in 1..Len(df) :
                           Lower(CellText(df, column, i)) = Strip(Lower(search_term))})

\* search_in_dataframe(df, column, search_term): the index labels of the rows returned
SearchInDataframe(df, column, search_term) ==
    IF column \notin DfColumns THEN <<>>
    ELSE
    LET search_term_lower == Strip(Lower(search_term))
        rows == 1..Len(df)
        exact_match == {i \in rows : Lower(CellText(df, column, i)) = search_term_lower}
        contains_match == {i \in rows :
                              IsSubstring(search_term_lower, Lower(CellText(df, column, i)))}
        word_match == {i \in rows :
                          \A word \in SplitWords(search_term_lower) :
                              IsSubstring(word, Lower(CellText(df, column, i)))}
    IN IF exact_match # {} THEN Keep(Len(df), exact_match)
       ELSE IF contains_match # {} THEN Keep(Len(df), contains_match)
       ELSE IF Cardinality(WordStarts(search_term_lower)) > 1 /\ word_match # {}
       THEN Keep(Len(df), word_match)
       ELSE <<>>

-----------------------------------------------------------------------------
(* Partner-name search of the two classifier variants *)

RenderCap == 15     \* all_matches.head(15)

Min(a, b) == IF a <= b THEN a ELSE b

\* seq restricted to the positions in keep, order kept
RECURSIVE Pick(_, _, _)
Pick(seq, keep, n) ==
    IF n = 0 THEN <<>>
    ELSE IF n \in keep THEN Append(Pick(seq, keep, n - 1), seq[n])
    ELSE Pick(seq, keep, n - 1)

\* pd.concat([...]).drop_duplicates(subset=['MCF Number']) (line 140)
DropDuplicatesByKey(df, labels) ==
    LET first == {k \in 1..Len(labels) :
                     \A j \in 1..(k - 1) : df[labels[j]].mcf # df[labels[k]].mcf}
    IN Pick(labels, first, Len(labels))

\* pd.concat([...]).drop_duplicates() (line 982): rows equal in every column
DropDuplicateRows(df, labels) ==
    LET first == {k \in 1..Len(labels) :
                     \A j \in 1..(k - 1) : df[labels[j]] # df[labels[k]]}
    IN Pick(labels, first, Len(labels))

Entry(df, label, is_cp1, is_cp2) ==
    [label |-> label, mcf |-> df[label].mcf, is_cp1 |-> is_cp1, is_cp2 |-> is_cp2]

SuggestCap == 5     \* [...][:5]

\* Series.unique(): each value once, in order of first appearance
Unique(seq) ==
    Pick(seq, {k \in 1..Len(seq) : \A j \in 1..(k - 1) : seq[j] # seq[k]}, Len(seq))

\* pd.concat([results_df['CP1 Name'].dropna(), results_df['CP2 Name'].dropna()]).unique()
AvailablePartners(df) ==
    Unique([i \in 1..Len(df) |-> df[i].cp1] \o [i \in 1..Len(df) |-> df[i].cp2])

\* a suggestion list that does not test the names against the query
SimilarUnfiltered(available, name) ==
    SubSeq(available, 1, Min(Len(available), SuggestCap))

\* [p for p in available if name.lower() in str(p).lower()][:5] (lines 184, 272)
Similar(available, name) ==
    LET hits == Pick(available,
                     {k \in 1..Len(available) :
                         IsSubstring(Lower(name), Lower(available[k]))},
                     Len(available))
    IN SubSeq(hits, 1, Min(Len(hits), SuggestCap))

\* enhanced classifier fragment, partner name given (lines 135-198): the match count
\* reported and one entry per rendered record with the roles it is annotated with
PartnerEnhanced(df, partner_name) ==
    LET cp1_matches == SearchInDataframe(df, "CP1 Name", partner_name)
        cp2_matches == SearchInDataframe(df, "CP2 Name", partner_name)
        all_matches == DropDuplicatesByKey(df, cp1_matches \o cp2_matches)
        cp1_keys == {df[i].mcf : i \in Range(cp1_matches)}
        cp2_keys == {df[i].mcf : i \in Range(cp2_matches)}
    IN [count |-> Len(all_matches),
        entries |-> [k \in 1..Min(Len(all_matches), RenderCap) |->
                        Entry(df, all_matches[k],
                              df[all_matches[k]].mcf \in cp1_keys,
                              df[all_matches[k]].mcf \in cp2_keys)],
        similar |-> IF all_matches = <<>>
                    THEN Similar(AvailablePartners(df), partner_name) ELSE <<>>]

\* enhanced classifier fragment, customer name given (lines 256-284): the matches
\* rendered, or the similar customers suggested when there is none
CustomerEnhanced(df, customer_name) ==
    LET matches == SearchInDataframe(df, "Customer Name", customer_name)
    IN [count |-> Len(matches),
        entries |-> [k \in 1..Len(matches) |-> Entry(df, matches[k], FALSE, FALSE)],
        similar |-> IF matches = <<>>
                    THEN Similar(Unique([i \in 1..Len(df) |-> df[i].customer]),
                                 customer_name)
                    ELSE <<>>]

\* chat_with_ai, Pattern 5 with a partner query (lines 977-1006)
PartnerChat(df, partner_name) ==
    LET partner_query == Lower(partner_name)
        cp1_matches == Keep(Len(df), {i \in 1..Len(df) :
                                         IsSubstring(partner_query, Lower(df[i].cp1))})
        cp2_matches == Keep(Len(df), {i \in 1..Len(df) :
                                         IsSubstring(partner_query, Lower(df[i].cp2))})
        all_matches == DropDuplicateRows(df, cp1_matches \o cp2_matches)
    IN [count |-> Len(all_matches),
        entries |-> [k \in 1..Min(Len(all_matches), RenderCap) |->
                        Entry(df, all_matches[k],
                              IsSubstring(partner_query, Lower(df[all_matches[k]].cp1)),
                              IsSubstring(partner_query, Lower(df[all_matches[k]].cp2)))]]

-----------------------------------------------------------------------------
(* The search specification: a table, a query, one operation applied to them *)

MaxSearchRows == 2

Names == { <<>>, <<"A">>, <<"a", "b">>, <<"b", " ", "a">>, <<" ", "a">> }
Queries == { <<"a">>, <<" ", "a">>, <<"a", " ", "b">>, <<"b">>, <<" ">> }
KeyNames == <<"K1", "K2", "K3", "K4">>
CustomerNames == { <<"A">>, <<"b", " ", "a">> }
\* the last: not a column
SearchColumns == {"CP1 Name", "CP2 Name", "Customer Name", "Partner"}

SearchTables ==
    {[i \in 1..MaxSearchRows |->
         [mcf |-> IF dup /\ i = 2 THEN KeyNames[1] ELSE KeyNames[i],
          cp1 |-> names[i][1], cp2 |-> names[i][2], customer |-> customers[i]]] :
        names \in [1..MaxSearchRows -> Names \X Names],
        customers \in [1..MaxSearchRows -> CustomerNames], dup \in BOOLEAN}

NoOutput ==
    [op |-> "none", column |-> "", rows |-> <<>>, count |-> 0, entries |-> <<>>,
     similar |-> <<>>]

InitSearch ==
    /\ s_df \in SearchTables
    /\ s_query \in Queries
    /\ s_out = NoOutput
    /\ sheet = <<>>
    /\ results_df = <<>>
    /\ messages = <<>>
    /\ session = NoSession
    /\ call = NoCall
    /\ steps = 0
    /\ inflight = NoFlights

Search ==
    \E column \in SearchColumns :
        /\ s_out.op = "none"
        /\ s_out' = [op |-> "search", column |-> column,
                     rows |-> SearchInDataframe(s_df, column, s_query),
                     count |-> 0, entries |-> <<>>, similar |-> <<>>]
        /\ UNCHANGED <<s_df, s_query, sheetVars, inflight>>

PartnerSearchEnhanced ==
    /\ s_out.op = "none"
    /\ s_out' = [op |-> "enhanced", column |-> "", rows |-> <<>>,
                 count |-> PartnerEnhanced(s_df, s_query).count,
                 entries |-> PartnerEnhanced(s_df, s_query).entries,
                 similar |-> PartnerEnhanced(s_df, s_query).similar]
    /\ UNCHANGED <<s_df, s_query, sheetVars, inflight>>

PartnerSearchChat ==
    /\ s_out.op = "none"
    /\ s_out' = [op |-> "chat", column |-> "", rows |-> <<>>,
                 count |-> PartnerChat(s_df, s_query).count,
                 entries |-> PartnerChat(s_df, s_query).entries,
                 similar |-> <<>>]
    /\ UNCHANGED <<s_df, s_query, sheetVars, inflight>>

CustomerSearchEnhanced ==
    /\ s_out.op = "none"
    /\ s_out' = [op |-> "customer", column |-> "", rows |-> <<>>,
                 count |-> CustomerEnhanced(s_df, s_query).count,
                 entries |-> CustomerEnhanced(s_df, s_query).entries,
                 similar |-> CustomerEnhanced(s_df, s_query).similar]
    /\ UNCHANGED <<s_df, s_query, sheetVars, inflight>>

NextSearch ==
    \/ Search
    \/ PartnerSearchEnhanced
    \/ PartnerSearchChat
    \/ CustomerSearchEnhanced

SpecSearch == InitSearch /\ [][NextSearch]_vars

-----------------------------------------------------------------------------
(* Messages.  A user message is its sequence of whitespace-separated words,  *)
(* lower-cased; the words "K1", "K2", "K3" stand for keys of the shape       *)
(* MCF-<8 digits>-<4 digits>.                                                *)

\* the trigger keywords of chat_with_ai that occur inside a word
KeywordsIn(w) ==
    CASE w \in KeyParams -> {"mcf"}
      [] w = "mcfs" -> {"mcf"}
      [] w = "reviewed" -> {"review"}
      [] w = "profitable" -> {"profit"}
      [] w = "loss-making" -> {"loss"}
      [] w = "complete" -> {"pl"}
      [] w \in {"mark", "cover", "loss", "profit", "show", "summary", "who", "cp1",
                "cp2", "partner", "customer", "details", "list", "all", "total",
                "pl", "name", "number", "mcf"} -> {w}
      [] OTHER -> {}

\* kw in user_lower, for a keyword without a space
Has(msg, kw) == \E i \in 1..Len(msg) : kw \in KeywordsIn(msg[i])

\* kw in user_lower, for the two-word keywords ("who is", "tell me", "how many",
\* "channel partner"): two adjacent words, the first ending and the second
\* starting with the keyword's halves
HasPhrase(msg, first, second) ==
    \E i \in 1..(Len(msg) - 1) : msg[i] = first /\ msg[i + 1] = second

HasAny(msg, kws) == \E kw \in kws : Has(msg, kw)

\* re.findall(r'MCF-\d{8}-\d{4}', user_message.upper()) (lines 869-870)
RECURSIVE ExtractMcfs(_)
ExtractMcfs(msg) ==
    IF msg = <<>> THEN <<>>
    ELSE IF Head(msg) \in KeyParams THEN <<Head(msg)>> \o ExtractMcfs(Tail(msg))
    ELSE ExtractMcfs(Tail(msg))

\* words of at most two characters: len(w) > 2 drops them
ShortWords == {"a", "as", "it", "me", "is", "of", "pl"}

\* [w for w in user_message.split() if w.lower() not in stop_words and len(w) > 2]
SignificantWords(msg, stop_words) ==
    LET Test(w) == w \notin stop_words /\ w \notin ShortWords
    IN SelectSeq(msg, Test)

CustomerStopWords ==
    {"what", "is", "the", "mcf", "number", "for", "customer", "client", "named",
     "called", "of", "with", "name"}
PartnerStopWords ==
    {"show", "me", "all", "mcf", "for", "cp1", "cp2", "partner", "named", "called",
     "is", "the"}

-----------------------------------------------------------------------------
(* The Intent Classifier: chat_with_ai (lines 826-1146) *)

Answer(kind) ==
    [type |-> "answer", kind |-> kind, action_type |-> "", loss_mcf |-> "",
     profit_mcf |-> "", mcf |-> ""]
ErrorResponse(kind) ==
    [type |-> "error", kind |-> kind, action_type |-> "", loss_mcf |-> "",
     profit_mcf |-> "", mcf |-> ""]
\* an answer about the record carrying key mcf
AnswerFor(kind, mcf) ==
    [type |-> "answer", kind |-> kind, action_type |-> "", loss_mcf |-> "",
     profit_mcf |-> "", mcf |-> mcf]
\* no response: an exception leaves the classifier uncaught
Raised(kind) ==
    [type |-> "raised", kind |-> kind, action_type |-> "", loss_mcf |-> "",
     profit_mcf |-> "", mcf |-> ""]
\* a response of type action: chat_with_ai has called execute_sheet_action
ActionResponse(action_type, loss_mcf, profit_mcf, mcf) ==
    [type |-> "action", kind |-> "explanation", action_type |-> action_type,
     loss_mcf |-> loss_mcf, profit_mcf |-> profit_mcf, mcf |-> mcf]

\* results_df[...].sort_values('Net Profit/Loss').iloc[0]: the first row of the least
\* (sign = 1) or, with ascending=False, the greatest (sign = -1) value among rows
SortedFirst(df, rows, sign) ==
    CHOOSE i \in rows :
        /\ \A j \in rows : sign * df[i].pl <= sign * df[j].pl
        /\ \A j \in rows : df[j].pl = df[i].pl => i <= j

\* a Pattern 9 that takes a single key of the message as the loss
CoverLossIntentUsingKey(mcfs, df) ==
    LET profit_df == {i \in 1..Len(df) : df[i].pl > 0}
    IN IF Len(mcfs) >= 2
       THEN ActionResponse("cover_loss", mcfs[1], mcfs[2], "")
       ELSE IF mcfs = <<>> THEN Answer("no_losses")
       ELSE IF profit_df = {} THEN Answer("no_profits")
       ELSE ActionResponse("cover_loss", mcfs[1],
                           df[SortedFirst(df, profit_df, -1)].mcf, "")

\* Pattern 9 (lines 1071-1098)
CoverLossIntent(mcfs, df) ==
    LET loss_df == {i \in 1..Len(df) : df[i].pl < 0}
        profit_df == {i \in 1..Len(df) : df[i].pl > 0}
    IN IF Len(mcfs) >= 2
       THEN ActionResponse("cover_loss", mcfs[1], mcfs[2], "")
       ELSE IF loss_df = {} THEN Answer("no_losses")
       ELSE IF profit_df = {} THEN Answer("no_profits")
       ELSE ActionResponse("cover_loss", df[SortedFirst(df, loss_df, 1)].mcf,
                           df[SortedFirst(df, profit_df, -1)].mcf, "")

\* Pattern 10 (lines 1101-1117)
MarkReviewedIntent(mcfs) ==
    IF mcfs = <<>> THEN ErrorResponse("specify_mcf")
    ELSE ActionResponse("mark_reviewed", "", "", mcfs[1])

\* the if / elif chain from Pattern 6 to the fallback (lines 1009-1146)
ListsAndActions(msg, mcfs, df) ==
    IF Has(msg, "profit") /\ Has(msg, "show") THEN Answer("show_profit")
    ELSE IF Has(msg, "loss") /\ Has(msg, "show") THEN Answer("show_loss")
    ELSE IF Has(msg, "summary") \/ (Has(msg, "total") /\ Has(msg, "pl"))
    THEN Answer("summary")
    ELSE IF Has(msg, "cover") /\ Has(msg, "loss") THEN CoverLossIntent(mcfs, df)
    ELSE IF Has(msg, "mark") /\ Has(msg, "review") THEN MarkReviewedIntent(mcfs)
    ELSE Answer("help")

\* results_df[results_df['MCF Number'] == mcf].iloc[0]
FirstRow(df, mcf) ==
    df[CHOOSE i \in 1..Len(df) :
           df[i].mcf = mcf /\ \A j \in 1..(i - 1) : df[j].mcf # mcf]

\* row.get('Loan Amount', 0); a table that does not follow the column stands for one
\* whose Loan Amount cells are numbers
LoanOf(row) == IF "loan" \in DOMAIN row THEN row.loan ELSE Num(0)

\* f"{value:,.0f}" raises ValueError unless the value is a number; the record's answer
\* is returned when every formatted value is one
Formatted(value, response) == IF value.num THEN response ELSE Raised("ValueError")

\* words that are no valid regular expression
BadRegexWords == {"(abc"}

\* Series.str.contains(query) compiles the query as a regular expression (regex=True
\* is the default): re.error when it is not one
Compiled(query, response) ==
    IF \E i \in 1..Len(query) : query[i] \in BadRegexWords
    THEN Raised("re.error") ELSE response

\* ' '.join(words[:3])
FirstThree(words) == SubSeq(words, 1, IF Len(words) < 3 THEN Len(words) ELSE 3)

\* chat_with_ai(user_message, results_df, spreadsheet, model)
ChatWithAI(msg, df) ==
    LET mcfs == ExtractMcfs(msg)
        InTable(k) == \E i \in 1..Len(df) : df[i].mcf = k
    IN
    IF df = <<>> THEN ErrorResponse("no_data")
    ELSE IF /\ HasAny(msg, {"customer", "client", "name"})
            /\ HasAny(msg, {"mcf", "number", "deal"})
            /\ SignificantWords(msg, CustomerStopWords) # <<>>
    THEN Compiled(FirstThree(SignificantWords(msg, CustomerStopWords)),
                  Answer("customer_search"))                        \* Pattern 1
    ELSE IF mcfs # <<>> /\ HasAny(msg, {"customer", "client", "who", "name"})
    THEN IF InTable(mcfs[1])                                        \* Pattern 2
         THEN Formatted(LoanOf(FirstRow(df, mcfs[1])),
                        AnswerFor("record_details", mcfs[1]))
         ELSE Answer("mcf_not_found")
    ELSE IF mcfs # <<>> /\ (HasAny(msg, {"cp1", "cp2", "partner"})
                              \/ HasPhrase(msg, "channel", "partner")
                              \/ HasPhrase(msg, "who", "is"))
    THEN IF InTable(mcfs[1]) THEN AnswerFor("partner_details", mcfs[1])  \* Pattern 3
         ELSE Answer("mcf_not_found")
    ELSE IF mcfs # <<>> /\ (HasAny(msg, {"details", "info", "about"})
                              \/ HasPhrase(msg, "tell", "me"))
    THEN IF InTable(mcfs[1])                                        \* Pattern 4
         THEN Formatted(LoanOf(FirstRow(df, mcfs[1])),
                        AnswerFor("full_details", mcfs[1]))
         ELSE Answer("mcf_not_found")
    ELSE IF /\ HasAny(msg, {"cp1", "cp2", "partner"})
            /\ (HasAny(msg, {"mcf", "deals", "show"}) \/ HasPhrase(msg, "how", "many"))
            /\ SignificantWords(msg, PartnerStopWords) # <<>>
    THEN Compiled(FirstThree(SignificantWords(msg, PartnerStopWords)),
                  Answer("partner_search"))                         \* Pattern 5
    ELSE ListsAndActions(msg, mcfs, df)

-----------------------------------------------------------------------------
(* The enhanced classifier fragment (lines 1-522) *)

\* the function ends without a return statement: None
NoResponse ==
    [type |-> "none", kind |-> "", action_type |-> "", loss_mcf |-> "",
     profit_mcf |-> "", mcf |-> ""]

EnhancedPartnerStopWords ==
    {"show", "me", "all", "mcf", "mcfs", "for", "partner", "cp1", "cp2", "named",
     "called", "is", "the", "who"}
EnhancedCustomerStopWords ==
    {"what", "is", "the", "mcf", "number", "for", "customer", "client", "named",
     "called", "of", "with", "name", "show", "me"}

\* PATTERN 1 (lines 19-210)
EnhancedPartner(msg, mcfs, df) ==
    IF mcfs # <<>>
    THEN IF ~\E i \in 1..Len(df) : df[i].mcf = mcfs[1]
         THEN Answer("mcf_not_found")
         ELSE IF Has(msg, "cp1") /\ ~Has(msg, "cp2")
         THEN AnswerFor("cp1_details", mcfs[1])
         ELSE IF Has(msg, "cp2") /\ ~Has(msg, "cp1")
         THEN AnswerFor("cp2_details", mcfs[1])
         ELSE AnswerFor("partner_details", mcfs[1])
    ELSE IF SignificantWords(msg, EnhancedPartnerStopWords) # <<>>
    THEN Answer("partner_search")
    ELSE Answer("ask_partner")

\* PATTERN 2 (lines 215-295)
EnhancedCustomer(msg, mcfs, df) ==
    IF mcfs # <<>>
    THEN IF ~\E i \in 1..Len(df) : df[i].mcf = mcfs[1]
         THEN Answer("mcf_not_found")
         ELSE Formatted(LoanOf(FirstRow(df, mcfs[1])),
                        AnswerFor("customer_info", mcfs[1]))
    ELSE IF SignificantWords(msg, EnhancedCustomerStopWords) # <<>>
    THEN Answer("customer_search")
    ELSE Answer("ask_customer")

\* PATTERN 3 (lines 300-342)
EnhancedDetails(mcfs, df) ==
    IF ~\E i \in 1..Len(df) : df[i].mcf = mcfs[1]
    THEN Answer("mcf_not_found")
    ELSE Formatted(LoanOf(FirstRow(df, mcfs[1])), AnswerFor("full_details", mcfs[1]))

\* PATTERN 4 (lines 347-426): no branch for a message with none of the words
EnhancedShow(msg) ==
    IF Has(msg, "profit") THEN Answer("show_profit")
    ELSE IF Has(msg, "loss") THEN Answer("show_loss")
    ELSE IF Has(msg, "partner") \/ Has(msg, "cp1") \/ Has(msg, "cp2")
    THEN Answer("partner_list")
    ELSE IF Has(msg, "mcf") \/ Has(msg, "all") THEN Answer("all_mcfs")
    ELSE NoResponse

\* the if / elif chain of the fragment
EnhancedClassifier(msg, df) ==
    LET mcfs == ExtractMcfs(msg) IN
    IF df = <<>> THEN ErrorResponse("no_data")
    ELSE IF HasAny(msg, {"cp1", "cp2", "partner"}) \/ HasPhrase(msg, "channel", "partner")
    THEN EnhancedPartner(msg, mcfs, df)
    ELSE IF HasAny(msg, {"customer", "client"})
    THEN EnhancedCustomer(msg, mcfs, df)
    ELSE IF mcfs # <<>> /\ (HasAny(msg, {"details", "info", "about"})
                              \/ HasPhrase(msg, "tell", "me")
                              \/ HasPhrase(msg, "show", "me"))
    THEN EnhancedDetails(mcfs, df)
    ELSE IF Has(msg, "show") \/ Has(msg, "list") THEN EnhancedShow(msg)
    ELSE IF Has(msg, "summary") \/ (Has(msg, "total") /\ Has(msg, "pl"))
    THEN Answer("summary")
    ELSE IF Has(msg, "cover") /\ Has(msg, "loss") THEN CoverLossIntent(mcfs, df)
    ELSE IF Has(msg, "mark") /\ Has(msg, "review") THEN MarkReviewedIntent(mcfs)
    ELSE Answer("help")


-----------------------------------------------------------------------------
(* The session: sidebar and Conversation Loop (lines 614-623, 1156-1365) *)

MaxSteps == 3     \* sidebar operations and user messages in one behaviour of Spec

\* the messages a user sends: the four quick actions (lines 1307-1320) and typed ones
UserMessages ==
    {<<"show", "me", "all", "loss-making", "mcfs">>,
     <<"show", "me", "all", "profitable", "mcfs">>,
     <<"cover", "the", "biggest", "loss", "with", "the", "biggest", "profit">>,
     <<"give", "me", "a", "complete", "summary">>,
     <<"mark", "it", "reviewed">>}
    \cup {<<"mark", k, "as", "reviewed">> : k \in KeyParams}
    \cup {<<"cover", "loss", "from", lk, "with", pk>> : lk, pk \in KeyParams}

UserEntry(msg) ==
    [role |-> "user", content |-> msg, has_results |-> FALSE, results |-> <<>>]

\* f"Covering loss from **{loss_mcf}** with profit from **{profit_mcf}**" (line 1096),
\* f"Marking **{mcf}** as reviewed" (line 1115)
Explanation(response) ==
    IF response.action_type = "cover_loss"
    THEN <<"Covering loss from", response.loss_mcf, "with profit from", response.profit_mcf>>
    ELSE <<"Marking", response.mcf, "as reviewed">>

\* an entry that shows an action with an empty result list as done
AssistantEntryDone(response, results) ==
    IF response.type = "action"
    THEN [role |-> "assistant", content |-> Explanation(response), has_results |-> TRUE,
          results |-> IF results = <<>> THEN <<Result("success", "done", "")>>
                      ELSE results]
    ELSE [role |-> "assistant", content |-> <<response.kind>>,
          has_results |-> FALSE, results |-> <<>>]

\* ai_msg (lines 1348-1362)
AssistantEntry(response, results) ==
    IF response.type = "action"
    THEN [role |-> "assistant", content |-> Explanation(response),
          has_results |-> TRUE, results |-> results]
    ELSE [role |-> "assistant", content |-> <<response.kind>>,
          has_results |-> FALSE, results |-> <<>>]

\* st.session_state.results_df = load_master_reconciliation(spreadsheet): None when a
\* remote call of the load raises (lines 665-667)
LoadInto(g, load_ok) ==
    /\ results_df' = IF load_ok THEN LoadMasterReconciliation(g) ELSE <<>>
    /\ session' = [session EXCEPT !.loaded = load_ok]

\* the branch of Connect after init_services succeeded (lines 1194-1200)
ConnectInto(g, load_ok) ==
    /\ results_df' = IF load_ok THEN LoadMasterReconciliation(g) ELSE <<>>
    /\ session' = [connected |-> TRUE, spreadsheet |-> TRUE, model |-> TRUE,
                   loaded |-> load_ok]

Init ==
    /\ sheet \in InitialSheets
    /\ results_df = <<>>
    /\ messages = <<>>
    /\ session = NoSession
    /\ call = NoCall
    /\ steps = 0
    /\ SearchIdle

\* the Connect button (lines 1181-1210): nothing is stored when init_services fails
Connect ==
    \E init_ok \in BOOLEAN, load_ok \in BOOLEAN :
        /\ steps < MaxSteps
        /\ ~session.connected
        /\ IF init_ok THEN ConnectInto(sheet, load_ok)
           ELSE load_ok /\ UNCHANGED <<results_df, session>>
        /\ steps' = steps + 1
        /\ UNCHANGED <<sheet, messages, call, searchVars>>

\* the Reload Data button (lines 1235-1240)
ReloadData ==
    \E load_ok \in BOOLEAN :
        /\ steps < MaxSteps
        /\ session.connected
        /\ LoadInto(sheet, load_ok)
        /\ steps' = steps + 1
        /\ UNCHANGED <<sheet, messages, call, searchVars>>

\* the Clear Chat button (lines 1242-1244)
ClearChat ==
    /\ steps < MaxSteps
    /\ session.connected
    /\ messages' = <<>>
    /\ steps' = steps + 1
    /\ UNCHANGED <<sheet, results_df, session, call, searchVars>>

\* a Disconnect that keeps the transcript
DisconnectKeepingChat ==
    /\ steps < MaxSteps
    /\ session.connected
    /\ session' = NoSession
    /\ results_df' = <<>>
    /\ steps' = steps + 1
    /\ UNCHANGED <<sheet, messages, call, searchVars>>

\* the Disconnect button (lines 1246-1252)
Disconnect ==
    /\ steps < MaxSteps
    /\ session.connected
    /\ session' = NoSession
    /\ results_df' = <<>>
    /\ messages' = <<>>
    /\ steps' = steps + 1
    /\ UNCHANGED <<sheet, call, searchVars>>

\* a loop that keeps the Row Table it has after an action
ActionTurnNoReload(msg, response, params, fault, load_ok) ==
    /\ ExecuteSheetAction(response.action_type, params, fault)
    /\ UNCHANGED <<results_df, session>>
    /\ messages' = messages \o <<UserEntry(msg), AssistantEntry(response, call'.results)>>

\* the branch of lines 1348-1357: chat_with_ai has executed the action (remote call
\* `fault` raising); the loop reloads the table and appends both entries
ActionTurn(msg, response, params, fault, load_ok) ==
    /\ ExecuteSheetAction(response.action_type, params, fault)
    /\ LoadInto(sheet', load_ok)
    /\ messages' = messages \o <<UserEntry(msg), AssistantEntry(response, call'.results)>>

\* the branch of lines 1358-1362; when chat_with_ai raises, the run of the script ends
\* at line 1340 with the user entry appended and nothing else
AnswerTurn(msg, response) ==
    /\ messages' = messages \o
           (IF response.type = "raised" THEN <<UserEntry(msg)>>
            ELSE <<UserEntry(msg), AssistantEntry(response, <<>>)>>)
    /\ UNCHANGED <<sheet, results_df, session, call>>

\* one user message through the Conversation Loop (lines 1255, 1330-1365)
UserInput ==
    /\ steps < MaxSteps
    /\ session.connected /\ session.loaded
    /\ \E msg \in UserMessages :
        \E response \in {ChatWithAI(msg, results_df)} :
            IF response.type = "action"
            THEN \E fault \in FaultRange, load_ok \in BOOLEAN :
                    ActionTurn(msg, response,
                               Params(response.loss_mcf, response.profit_mcf,
                                      response.mcf, "", Blank),
                               fault, load_ok)
            ELSE AnswerTurn(msg, response)
    /\ steps' = steps + 1
    /\ UNCHANGED searchVars

Next ==
    \/ Connect
    \/ ReloadData
    \/ ClearChat
    \/ Disconnect
    \/ UserInput
    \/ ExternalEdit

Spec == Init /\ [][Next]_vars

-----------------------------------------------------------------------------
(* What an answer renders *)

ShowCap == 20     \* profit_df.head(20), loss_df.head(20)

\* the parts of a rendered message the properties read; the fields an answer does
\* not render keep these values
NoBody ==
    [cp2_statement |-> FALSE, cp2_payout_shown |-> FALSE, cp2_payout |-> 0,
     total_mcfs |-> 0, total_pl |-> 0, profitable |-> 0, losses |-> 0,
     count |-> 0, listed |-> <<>>, more_shown |-> FALSE, more |-> 0]

\* `not cp2_name or cp2_name == 'Not available'`: the empty string is falsy, a
\* string of blanks is not
NoCp2Name(cell) == cell = Str("") \/ cell = Str("Not available")

\* Pattern 3 of chat_with_ai: the four CP2 lines are always written (lines 909-913)
ChatPartnerBody(row) ==
    [NoBody EXCEPT !.cp2_payout_shown = TRUE, !.cp2_payout = row.cp2_actual]

\* the cp2-only branch of the fragment: the payout lines, then the note (lines 66-87)
EnhancedCp2Body(row) ==
    [NoBody EXCEPT !.cp2_payout_shown = TRUE, !.cp2_payout = row.cp2_actual,
                   !.cp2_statement = NoCp2Name(row.cp2)]

\* the both-partners branch of the fragment (lines 103-115)
EnhancedPartnerBody(row) ==
    IF NoCp2Name(row.cp2)
    THEN [NoBody EXCEPT !.cp2_statement = TRUE]
    ELSE [NoBody EXCEPT !.cp2_payout_shown = TRUE, !.cp2_payout = row.cp2_actual]

\* results_df['Net Profit/Loss'].sum()
RECURSIVE SumPL(_)
SumPL(df) == IF df = <<>> THEN 0 ELSE Head(df).pl + SumPL(Tail(df))

\* a summary that counts a break-even record as profitable
SummaryBodyCountingZero(df) ==
    [NoBody EXCEPT !.total_mcfs = Len(df),
                   !.total_pl = SumPL(df),
                   !.profitable = Cardinality({i \in 1..Len(df) : df[i].pl >= 0}),
                   !.losses = Cardinality({i \in 1..Len(df) : df[i].pl < 0})]

\* the summary report (lines 432-456, 1046-1068)
SummaryBody(df) ==
    [NoBody EXCEPT !.total_mcfs = Len(df),
                   !.total_pl = SumPL(df),
                   !.profitable = Cardinality({i \in 1..Len(df) : df[i].pl > 0}),
                   !.losses = Cardinality({i \in 1..Len(df) : df[i].pl < 0})]

\* sort_values('Net Profit/Loss') (sign = 1) and sort_values(..., ascending=False)
\* (sign = -1) of the rows in `rows`; the order among rows of equal value is left to
\* the sort algorithm, the model takes them in table order
RECURSIVE SortValues(_, _, _)
SortValues(df, rows, sign) ==
    IF rows = {} THEN <<>>
    ELSE <<SortedFirst(df, rows, sign)>>
             \o SortValues(df, rows \ {SortedFirst(df, rows, sign)}, sign)

\* a show list that renders every row
ShowBodyUncapped(df, rows, sign) ==
    LET sorted == SortValues(df, rows, sign)
    IN [NoBody EXCEPT !.count = Len(sorted),
                      !.listed = [k \in 1..Len(sorted) |->
                                     [mcf |-> df[sorted[k]].mcf, pl |-> df[sorted[k]].pl]],
                      !.more_shown = Len(sorted) > ShowCap,
                      !.more = IF Len(sorted) > ShowCap THEN Len(sorted) - ShowCap ELSE 0]

\* a show list (lines 349-385, 1009-1042): the count, the rows rendered and the
\* "... and N more" line
ShowBody(df, rows, sign) ==
    LET sorted == SortValues(df, rows, sign)
        shown == SubSeq(sorted, 1, IF Len(sorted) < ShowCap THEN Len(sorted) ELSE ShowCap)
    IN [NoBody EXCEPT !.count = Len(sorted),
                      !.listed = [k \in 1..Len(shown) |->
                                     [mcf |-> df[shown[k]].mcf, pl |-> df[shown[k]].pl]],
                      !.more_shown = Len(sorted) > ShowCap,
                      !.more = IF Len(sorted) > ShowCap THEN Len(sorted) - ShowCap ELSE 0]

ProfitRows(df) == {i \in 1..Len(df) : df[i].pl > 0}
LossRows(df) == {i \in 1..Len(df) : df[i].pl < 0}

\* the message of an answer of chat_with_ai
ChatBody(response, df) ==
    CASE response.type # "answer" -> NoBody
      [] response.kind = "partner_details" -> ChatPartnerBody(FirstRow(df, response.mcf))
      [] response.kind = "summary" -> SummaryBody(df)
      [] response.kind = "show_profit" -> ShowBody(df, ProfitRows(df), -1)
      [] response.kind = "show_loss" -> ShowBody(df, LossRows(df), 1)
      [] OTHER -> NoBody

\* the message of an answer of the enhanced fragment
EnhancedBody(response, df) ==
    CASE response.type # "answer" -> NoBody
      [] response.kind = "cp2_details" -> EnhancedCp2Body(FirstRow(df, response.mcf))
      [] response.kind = "partner_details" ->
             EnhancedPartnerBody(FirstRow(df, response.mcf))
      [] response.kind = "summary" -> SummaryBody(df)
      [] response.kind = "show_profit" -> ShowBody(df, ProfitRows(df), -1)
      [] response.kind = "show_loss" -> ShowBody(df, LossRows(df), 1)
      [] OTHER -> NoBody

-----------------------------------------------------------------------------
(* The classification specification: a sheet is loaded, then one message is      *)
(* classified, by chat_with_ai inside the Conversation Loop or by the fragment.  *)

MaxSheetRows == 22    \* data rows of the largest sheet

RowCounts == {1, 2, 3, MaxSheetRows - 2, MaxSheetRows - 1, MaxSheetRows}

RowKeyNames ==
    <<"K1", "K2", "K3", "K4", "K5", "K6", "K7", "K8", "K9", "K10", "K11", "K12",
      "K13", "K14", "K15", "K16", "K17", "K18", "K19", "K20", "K21", "K22", "K23",
      "K24">>

\* the cells of a data row after its key: CP2 Name, Actual CP2 Payout, Loan Amount,
\* Net Profit/Loss
RowKinds ==
    { <<Str("Beta"), Num(50), Num(9000), Num(1200)>>,
      <<Str(""), Blank, Num(9000), Num(-500)>>,
      <<Str(" "), Blank, Blank, Blank>>,
      <<Str("Beta"), Num(0), Str("n/a"), Num(400)>>,
      <<Str(""), Num(0), Num(9000), Num(-1000)>> }

WideHeader ==
    <<Str(MCF_NUMBER), Str(CP2_NAME), Str(ACTUAL_CP2_PAYOUT), Str(LOAN_AMOUNT),
      Str(NET_PL)>>

\* sheets of n data rows whose cells repeat with period 3
WideSheets ==
    {<<WideHeader>> \o [i \in 1..n |-> <<Str(RowKeyNames[i])>> \o kinds[((i - 1) % 3) + 1]] :
        n \in RowCounts, kinds \in [1..3 -> RowKinds]}

ClassifyKeys == {"K1", "K3"}

ClassifyMessages ==
    {<<"show", "me", "all", "loss-making", "mcfs">>,
     <<"show", "me", "all", "profitable", "mcfs">>,
     <<"cover", "the", "biggest", "loss", "with", "the", "biggest", "profit">>,
     <<"give", "me", "a", "complete", "summary">>,
     <<"total", "pl">>,
     <<"show", "orders">>,
     <<"list", "everything">>,
     <<"show", "all", "mcfs">>,
     <<"hello">>,
     <<"customer", "mcf">>,
     <<"show", "partner", "mcf">>,
     <<"show", "all", "mcfs", "for", "partner", "kaushalya">>,
     <<"what", "is", "the", "mcf", "number", "for", "customer", "(abc">>}
    \cup {<<"who", "is", "cp1", "and", "cp2", "for", k>> : k \in ClassifyKeys}
    \cup {<<"cp2", "for", k>> : k \in ClassifyKeys}
    \cup {<<"cp1", "for", k>> : k \in ClassifyKeys}
    \cup {<<"partner", "details", "for", k>> : k \in ClassifyKeys}
    \cup {<<"partner", "of", "customer", "for", k>> : k \in ClassifyKeys}
    \cup {<<"who", "is", "the", "customer", "for", k>> : k \in ClassifyKeys}
    \cup {<<"show", "me", "details", "of", k>> : k \in ClassifyKeys}
    \cup {<<"mark", k, "as", "reviewed">> : k \in ClassifyKeys}
    \cup {<<"cover", "loss", "from", k>> : k \in ClassifyKeys}
    \cup {<<"cover", "loss", "from", lk, "with", pk>> : lk, pk \in ClassifyKeys}

InitClassify ==
    /\ sheet \in WideSheets
    /\ results_df = <<>>
    /\ messages = <<>>
    /\ session = NoSession
    /\ call = NoCall
    /\ steps = 0
    /\ SearchIdle

\* Connect with valid credentials, the load succeeding (lines 1194-1200)
LoadTable ==
    /\ ~session.connected
    /\ ConnectInto(sheet, TRUE)
    /\ steps' = steps + 1
    /\ UNCHANGED <<sheet, messages, call, searchVars>>

\* one message through the Conversation Loop (lines 1330-1365), no remote call raising
ChatTurn ==
    /\ session.connected /\ session.loaded
    /\ s_out.op = "none"
    /\ \E msg \in ClassifyMessages :
        \E response \in {ChatWithAI(msg, results_df)} :
            /\ IF response.type = "action"
               THEN ActionTurn(msg, response,
                               Params(response.loss_mcf, response.profit_mcf,
                                      response.mcf, "", Blank), 0, TRUE)
               ELSE AnswerTurn(msg, response)
            /\ s_query' = msg
            /\ s_out' = [op |-> "chat", response |-> response,
                         body |-> ChatBody(response, results_df)]
    /\ steps' = steps + 1
    /\ UNCHANGED <<s_df, inflight>>

\* one message through the enhanced fragment; an action is executed by the fragment
\* itself (lines 477-482, 495-500)
EnhancedTurn ==
    /\ session.connected /\ session.loaded
    /\ s_out.op = "none"
    /\ \E msg \in ClassifyMessages :
        \E response \in {EnhancedClassifier(msg, results_df)} :
            /\ IF response.type = "action"
               THEN ExecuteSheetAction(response.action_type,
                                       Params(response.loss_mcf, response.profit_mcf,
                                              response.mcf, "", Blank), 0)
               ELSE UNCHANGED <<sheet, call>>
            /\ s_query' = msg
            /\ s_out' = [op |-> "enhanced", response |-> response,
                         body |-> EnhancedBody(response, results_df)]
    /\ steps' = steps + 1
    /\ UNCHANGED <<results_df, messages, session, s_df, inflight>>

NextClassify ==
    \/ LoadTable
    \/ ChatTurn
    \/ EnhancedTurn

SpecClassify == InitClassify /\ [][NextClassify]_vars

-----------------------------------------------------------------------------
(* Properties of execute_sheet_action, checked under SpecExec.  `call` is the *)
(* last call: pre/post the live sheet before and after it, df the snapshot    *)
(* it was given.                                                              *)

\* the key is in some row of the first column of the grid, as the scans test it
FoundInSheet(g, key) == \E i \in 1..Len(g) : KeyText(g[i][1]) = key
InSnapshot(df, key) == \E i \in 1..Len(df) : df[i].mcf = key
SnapshotPL(df, key) == DfRows(df, key)[1].pl

\* the rows of grid g carrying the key whose cell under header `name` is v
CellUnder(g, key, name, v) ==
    /\ ColumnOf(g, name) # 0
    /\ \E i \in 2..Len(g) : /\ KeyText(g[i][1]) = key
                            /\ g[i][ColumnOf(g, name)] = v

CoverCall ==
    /\ call.action = "cover_loss"
    /\ InSnapshot(call.df, call.loss_mcf)
    /\ InSnapshot(call.df, call.profit_mcf)
    /\ FoundInSheet(call.pre, call.loss_mcf)
    /\ FoundInSheet(call.pre, call.profit_mcf)

LossAmount == Abs(SnapshotPL(call.df, call.loss_mcf))
ProfitAmount == SnapshotPL(call.df, call.profit_mcf)

\* C1 (as claimed): a cover_loss of two distinct keys, both in the snapshot and in the
\* live sheet, with profit_amount >= loss_amount, in which no remote call raises,
\* leaves 0 in the loss row's Adjusted P&L cell and profit_amount - loss_amount in the
\* profit row's, and returns exactly one result, of status success.
C1_FullCoverageClaim ==
    (CoverCall /\ call.fault = 0 /\ call.loss_mcf # call.profit_mcf
        /\ ProfitAmount >= LossAmount)
    => /\ Len(call.results) = 1
       /\ call.results[1].status = "success"
       /\ CellUnder(call.post, call.loss_mcf, ADJUSTED_PL, Num(0))
       /\ CellUnder(call.post, call.profit_mcf, ADJUSTED_PL, Num(ProfitAmount - LossAmount))

\* C2 (as claimed): the same call with profit_amount < loss_amount leaves
\* -(loss_amount - profit_amount) in the loss row's Adjusted P&L cell and 0 in the
\* profit row's, and returns exactly one result, of status warning.
C2_PartialCoverageClaim ==
    (CoverCall /\ call.fault = 0 /\ call.loss_mcf # call.profit_mcf
        /\ ProfitAmount < LossAmount)
    => /\ Len(call.results) = 1
       /\ call.results[1].status = "warning"
       /\ CellUnder(call.post, call.loss_mcf, ADJUSTED_PL, Num(-(LossAmount - ProfitAmount)))
       /\ CellUnder(call.post, call.profit_mcf, ADJUSTED_PL, Num(0))

\* C3: a cover_loss naming a key that is absent from the snapshot returns exactly one
\* result, of status error, and writes no cell of the live sheet, whether or not a
\* remote call raises.
C3_MissingInSnapshot ==
    (call.action = "cover_loss"
        /\ (~InSnapshot(call.df, call.loss_mcf) \/ ~InSnapshot(call.df, call.profit_mcf)))
    => /\ Len(call.results) = 1
       /\ call.results[1].status = "error"
       /\ call.writes = <<>>
       /\ call.post = call.pre

\* C3 witness: the call ran to its return with a key that is in the live sheet and
\* in the other key's snapshot, but not in the snapshot itself
C3_Witness ==
    /\ call.action = "cover_loss"
    /\ call.fault = 0
    /\ ~InSnapshot(call.df, call.loss_mcf)
    /\ FoundInSheet(call.pre, call.loss_mcf)
    /\ InSnapshot(call.df, call.profit_mcf)
    /\ call.results = <<Result("error", "mcf_not_found", "")>>

\* the key(s) the call names, none of them found in the live sheet at write time
KeyNotFoundAtWrite ==
    \/ /\ call.action = "cover_loss"
       /\ InSnapshot(call.df, call.loss_mcf)
       /\ InSnapshot(call.df, call.profit_mcf)
       /\ \/ ~FoundInSheet(call.pre, call.loss_mcf)
          \/ ~FoundInSheet(call.pre, call.profit_mcf)
    \/ /\ call.action = "mark_reviewed"
       /\ ~FoundInSheet(call.pre, call.mcf)
    \/ /\ call.action = "update_value"
       /\ Str(call.column) \in Range(call.pre[1])
       /\ ~FoundInSheet(call.pre, call.mcf)

\* C4 (as claimed): a mutation whose key is not found in the live sheet at write time
\* returns a non-empty list whose entry has status error.
C4_NotFoundIsError ==
    KeyNotFoundAtWrite
    => /\ call.results # <<>>
       /\ call.results[1].status = "error"

MarkNotFound ==
    /\ call.action = "mark_reviewed"
    /\ call.fault = 0
    /\ ~FoundInSheet(call.pre, call.mcf)

\* C6 (as claimed): mark_reviewed with a key that is not found returns an empty list
\* and leaves the live sheet identical, header included.
C6_NotFoundNoOpClaim ==
    MarkNotFound => (call.results = <<>> /\ call.post = call.pre)

\* the grid with the two review headers appended at its right
WithReviewHeaders(g) ==
    [i \in 1..Len(g) |->
        IF i = 1 THEN g[1] \o <<Str(REVIEW_STATUS), Str(REVIEW_DATE)>>
        ELSE g[i] \o <<Blank, Blank>>]

\* C6 (amended): mark_reviewed with a key that is not found, no remote call raising,
\* returns an empty list and changes no existing cell; when the header has no
\* "Review Status" it appends the header cells "Review Status" and "Review Date",
\* and otherwise the sheet is identical.
C6_NotFoundOnlyHeaders ==
    MarkNotFound
    => /\ call.results = <<>>
       /\ call.post = IF Str(REVIEW_STATUS) \in Range(call.pre[1])
                      THEN call.pre
                      ELSE WithReviewHeaders(call.pre)

C6_Witness ==
    /\ MarkNotFound
    /\ Str(REVIEW_STATUS) \notin Range(call.pre[1])
    /\ call.post # call.pre
    /\ Len(call.writes) = 2

\* C7: update_value writes at most one cell.  No remote call raising: an unknown
\* column gives exactly one error result naming it and no write; a known column and
\* a found key give one success result and the sheet differs from before exactly by
\* that value in that column of a row carrying the key; a known column and a key not
\* found give an empty list and no write.
C7_UpdateValue ==
    call.action = "update_value"
    => /\ Len(call.writes) <= 1
       /\ call.fault = 0 =>
            IF Str(call.column) \notin Range(call.pre[1])
            THEN /\ call.results = <<Result("error", "column_not_found", call.column)>>
                 /\ call.writes = <<>>
                 /\ call.post = call.pre
            ELSE IF FoundInSheet(call.pre, call.mcf)
            THEN /\ Len(call.results) = 1
                 /\ call.results[1].status = "success"
                 /\ \E r \in 1..Len(call.pre) :
                       /\ KeyText(call.pre[r][1]) = call.mcf
                       /\ call.post = [call.pre EXCEPT
                              ![r][ColumnOf(call.pre, call.column)] = call.value]
            ELSE /\ call.results = <<>>
                 /\ call.writes = <<>>
                 /\ call.post = call.pre

\* C7 witness: a known column, a key carried by two rows, the cell written
C7_Witness ==
    /\ call.action = "update_value"
    /\ call.fault = 0
    /\ Str(call.column) \in Range(call.pre[1])
    /\ Cardinality({r \in 1..Len(call.pre) : KeyText(call.pre[r][1]) = call.mcf}) = 2
    /\ call.post # call.pre

\* C8: when a remote call of execute_sheet_action raises, the call returns exactly
\* one result, of status error and carrying the exception, and nothing else.
C8_RemoteFailure ==
    (call.action # "none" /\ call.fault # 0)
    => /\ Len(call.results) = 1
       /\ call.results[1].status = "error"
       /\ call.results[1].msg = "exception"

\* C8 witness: a cell write raised after earlier writes of the same call went through
C8_Witness ==
    /\ call.action = "mark_reviewed"
    /\ call.fault = 6
    /\ Len(call.writes) = 3
    /\ call.results = <<ErrException>>

-----------------------------------------------------------------------------
(* Properties of the Search Utility and of partner-name search, checked under *)
(* SpecSearch.                                                                *)

ExactRows(df, column, q) ==
    {i \in 1..Len(df) : Lower(CellText(df, column, i)) = q}
ContainsRows(df, column, q) ==
    {i \in 1..Len(df) : IsSubstring(q, Lower(CellText(df, column, i)))}
AllWordsRows(df, column, q) ==
    {i \in 1..Len(df) : \A w \in SplitWords(q) : IsSubstring(w, Lower(CellText(df, column, i)))}

\* the rows of the first non-empty tier for the query text q
FirstTier(df, column, q) ==
    IF ExactRows(df, column, q) # {} THEN ExactRows(df, column, q)
    ELSE IF ContainsRows(df, column, q) # {} THEN ContainsRows(df, column, q)
    ELSE IF Cardinality(WordStarts(q)) > 1 THEN AllWordsRows(df, column, q)
    ELSE {}

SearchDone == s_out.op = "search" /\ s_out.column \in DfColumns

\* C9 (as claimed): the rows returned are those of the first non-empty tier for the
\* query compared case-insensitively: equal to it, else containing it, else (more than
\* one word) containing every word, else none.
C9_TiersOnQueryClaim ==
    SearchDone => Range(s_out.rows) = FirstTier(s_df, s_out.column, Lower(s_query))

\* C9 (amended): the same, the query being the search term lower-cased and stripped of
\* leading and trailing whitespace; the rows come back in table order, each once.
C9_TiersOnStrippedQuery ==
    SearchDone
    => /\ Range(s_out.rows) = FirstTier(s_df, s_out.column, Strip(Lower(s_query)))
       /\ \A j, k \in 1..Len(s_out.rows) : j < k => s_out.rows[j] < s_out.rows[k]

\* C9 witness: an exact match in one row shadows a row that only contains the query
C9_Witness ==
    /\ SearchDone
    /\ ExactRows(s_df, s_out.column, Strip(Lower(s_query))) # {}
    /\ ContainsRows(s_df, s_out.column, Strip(Lower(s_query)))
          # ExactRows(s_df, s_out.column, Strip(Lower(s_query)))
    /\ Len(s_out.rows) = 1

UniqueKeys(df) == \A i, j \in 1..Len(df) : df[i].mcf = df[j].mcf => i = j

\* C10 (as claimed, in its self-referential case): in a table of distinct keys, a
\* record carrying the same name as CP1 Name and as CP2 Name that a partner-name
\* search returns appears exactly once, counted once, annotated with both roles.
C10_BothRolesClaim ==
    (s_out.op \in {"enhanced", "chat"} /\ UniqueKeys(s_df))
    => \A i \in 1..Len(s_df) :
          (s_df[i].cp1 = s_df[i].cp2 /\ \E k \in 1..Len(s_out.entries) : s_out.entries[k].label = i)
          => /\ Cardinality({k \in 1..Len(s_out.entries) : s_out.entries[k].label = i}) = 1
             /\ s_out.count = Len(s_out.entries)
             /\ \A k \in 1..Len(s_out.entries) :
                   s_out.entries[k].label = i
                   => s_out.entries[k].is_cp1 /\ s_out.entries[k].is_cp2

-----------------------------------------------------------------------------
(* Properties of the Conversation Loop, checked under Spec *)

\* the transcript ends with the turn of a "mark ... as reviewed" message whose key
\* no row of the live sheet carried when the action ran
MarkAbsentTurn ==
    /\ Len(messages) >= 2
    /\ messages[Len(messages) - 1].role = "user"
    /\ call.action = "mark_reviewed"
    /\ messages[Len(messages) - 1].content = <<"mark", call.mcf, "as", "reviewed">>
    /\ ~FoundInSheet(call.pre, call.mcf)

NoSuccessIn(results) == \A i \in 1..Len(results) : results[i].status # "success"

-----------------------------------------------------------------------------
(* Properties of the classifiers and of what they render, checked under          *)
(* SpecClassify.                                                                 *)

\* a message has been classified
Classified == s_out.op \in {"chat", "enhanced"}

\* the classified message was answered with the channel-partner details of a record
PartnerByKeyAnswer ==
    /\ Classified
    /\ s_out.response.type = "answer"
    /\ s_out.response.kind \in {"partner_details", "cp2_details"}

\* the record a partner-by-key answer is about
AnsweredRow == FirstRow(results_df, s_out.response.mcf)

\* a CP2 Name that is empty or only whitespace
AbsentCp2(cell) == cell \in {Str(""), Str(" ")}

\* C11: in every partner-by-key answer (the cp2-only and both-partners branches of the
\* fragment, Pattern 3 of chat_with_ai) a record whose CP2 Name is empty or only
\* whitespace is rendered with the statement that it has no CP2 partner and with no
\* CP2 payout line.
C11_Cp2AbsenceClaim ==
    (PartnerByKeyAnswer /\ AbsentCp2(AnsweredRow.cp2)) =>
        /\ s_out.body.cp2_statement
        /\ ~s_out.body.cp2_payout_shown

\* the classified message names a key carried by a record of the Row Table
KeyInTable ==
    /\ ExtractMcfs(s_query) # <<>>
    /\ \E i \in 1..Len(results_df) : results_df[i].mcf = ExtractMcfs(s_query)[1]

\* the classified message contains one of the partner keywords
PartnerWords ==
    \/ HasAny(s_query, {"cp1", "cp2", "partner"})
    \/ HasPhrase(s_query, "channel", "partner")

\* C12: in each variant of the classifier a message that names a key present in the
\* Row Table together with "cp1", "cp2", "channel partner" or "partner" is answered
\* with that record's channel-partner details, whatever other words it contains.
C12_PartnerPriorityClaim ==
    (Classified /\ KeyInTable /\ PartnerWords) =>
        /\ s_out.response.type = "answer"
        /\ s_out.response.kind \in {"cp1_details", "cp2_details", "partner_details"}
        /\ s_out.response.mcf = ExtractMcfs(s_query)[1]

\* a message has been classified by the enhanced fragment
ClassifiedEnhanced == s_out.op = "enhanced"

\* the classified message holds "show" or "list" and none of the words that select a
\* list
UnlistedShow ==
    /\ HasAny(s_query, {"show", "list"})
    /\ ~HasAny(s_query, {"profit", "loss", "partner", "cp1", "cp2", "mcf", "all"})

\* C13: for every message and non-empty Row Table the enhanced fragment returns a
\* response, and a message containing "show" or "list" but none of profit, loss,
\* partner, cp1, cp2, mcf, all is answered with the help text.
C13_EnhancedTotalClaim ==
    ClassifiedEnhanced =>
        /\ s_out.response.type \in {"answer", "action", "error"}
        /\ UnlistedShow => s_out.response.kind = "help"

\* a message has gone through the Conversation Loop
ClassifiedChat == s_out.op = "chat"

\* C14: chat_with_ai returns a response whose type is answer, action or error for every
\* message and non-empty Row Table, and processing one user message appends exactly
\* one user entry followed by exactly one assistant entry to the transcript.
C14_LoopAlwaysDisplaysClaim ==
    ClassifiedChat =>
        /\ s_out.response.type \in {"answer", "action", "error"}
        /\ Len(messages) = 2
        /\ messages[1] = UserEntry(s_query)
        /\ messages[2].role = "assistant"

-----------------------------------------------------------------------------
(* Properties of the session, checked under Spec (continued). *)

\* this step is one user message going through the Conversation Loop
LoopTurn == Len(messages') > Len(messages)

\* the response of this step's turn is of type action
ActionProcessed == messages'[Len(messages')].has_results

\* the Row Table after this step is the table of the live sheet as the step leaves it
FreshLoad == session'.loaded /\ results_df' = LoadMasterReconciliation(sheet')

\* the load of this step raised: the Row Table is None
LoadFailed == ~session'.loaded /\ results_df' = <<>>

\* C15 as stated: whenever the loop processes a response of type action, whatever its
\* results, the Row Table is replaced by a fresh load of the live sheet before the next
\* message is accepted; for a response of type answer or error the Row Table is left
\* unchanged.
C15_ReloadAfterActionClaim ==
    [][LoopTurn =>
          IF ActionProcessed THEN FreshLoad
          ELSE results_df' = results_df /\ session' = session]_vars

\* C15 amended: whenever the loop processes a response of type action, whatever its
\* results, the Row Table is replaced by what load_master_reconciliation returns for
\* the live sheet as the action left it: the fresh table, or None when a remote call of
\* the load raises; for a response of type answer or error the Row Table is unchanged.
C15_ReloadOrNone ==
    [][LoopTurn =>
          IF ActionProcessed THEN FreshLoad \/ LoadFailed
          ELSE results_df' = results_df /\ session' = session]_vars

\* C15 witness: an action was processed on a Row Table that no longer matched the live
\* sheet, its remote call `fault` raising or none, and the Row Table now is the table
\* of the live sheet
C15_Witness ==
    /\ messages # <<>>
    /\ messages[Len(messages)].has_results
    /\ call.action # "none"
    /\ call.df # LoadMasterReconciliation(call.pre)
    /\ session.loaded
    /\ results_df = LoadMasterReconciliation(sheet)
    /\ results_df # call.df

\* no handle, no model, no Row Table and an empty transcript
NothingHeld ==
    /\ ~session.spreadsheet
    /\ ~session.model
    /\ ~session.loaded
    /\ results_df = <<>>
    /\ messages = <<>>

\* this step is the Disconnect button
DisconnectStep == session.connected /\ ~session'.connected

\* this step is a Connect attempt that failed: a service error, invalid credential
\* JSON or a missing field
FailedConnectStep ==
    /\ ~session.connected /\ ~session'.connected
    /\ steps' # steps
    /\ sheet' = sheet

\* C16: in every reachable session state connected = False implies that the
\* spreadsheet handle, the model and the Row Table are None and the transcript is
\* empty; Disconnect establishes this from any connected state, and a failed connect
\* attempt leaves connected = False and changes none of these fields.
C16_SessionInvariant ==
    /\ [](~session.connected => NothingHeld)
    /\ [][DisconnectStep => (~session'.connected /\ NothingHeld')]_vars
    /\ [][FailedConnectStep => UNCHANGED <<session, results_df, messages>>]_vars

\* C16 witness: a session that has executed an action, so had a handle, a table and
\* a transcript, and is disconnected
C16_Witness ==
    /\ ~session.connected
    /\ call.action # "none"
    /\ NothingHeld

-----------------------------------------------------------------------------
(* Properties of the reports, checked under SpecClassify. *)

\* the Net Profit/Loss values of the records of the live sheet, in row order
SheetValues ==
    [i \in 1..(Len(sheet) - 1) |-> ToNumeric(sheet[i + 1][ColumnOf(sheet, NET_PL)])]

RECURSIVE SeqSum(_)
SeqSum(s) == IF s = <<>> THEN 0 ELSE Head(s) + SeqSum(Tail(s))

\* the classified message was answered with the summary report
SummaryAnswer ==
    /\ Classified
    /\ s_out.response.type = "answer"
    /\ s_out.response.kind = "summary"

\* C17: the summary reports Total MCFs = the number of records, Total P&L = the signed
\* sum of Net Profit/Loss, Profitable = the number of records with Net Profit/Loss > 0
\* and Losses = the number with Net Profit/Loss < 0; a break-even record is counted in
\* neither.
C17_SummaryCounts ==
    SummaryAnswer =>
        /\ s_out.body.total_mcfs = Len(SheetValues)
        /\ s_out.body.total_pl = SeqSum(SheetValues)
        /\ s_out.body.profitable =
               Cardinality({i \in 1..Len(SheetValues) : SheetValues[i] > 0})
        /\ s_out.body.losses =
               Cardinality({i \in 1..Len(SheetValues) : SheetValues[i] < 0})
        /\ s_out.body.profitable + s_out.body.losses
               + Cardinality({i \in 1..Len(SheetValues) : SheetValues[i] = 0})
             = s_out.body.total_mcfs

\* C17 witness: the summary of three records worth +1200, -500 and 0 reports 3 records,
\* a total of 700, one profitable and one loss
C17_Witness ==
    /\ SummaryAnswer
    /\ \E i \in 1..Len(SheetValues) : SheetValues[i] = 0
    /\ s_out.body.total_mcfs = 3
    /\ s_out.body.total_pl = 700
    /\ s_out.body.profitable = 1
    /\ s_out.body.losses = 1

\* the classified message was answered with the profit list (sign = -1) or the loss
\* list (sign = 1)
ShowAnswer(sign) ==
    /\ Classified
    /\ s_out.response.type = "answer"
    /\ s_out.response.kind = (IF sign = 1 THEN "show_loss" ELSE "show_profit")

\* the records of the live sheet a list is about: Net Profit/Loss < 0 for the loss
\* list, > 0 for the profit list
Listable(sign) == {i \in 1..Len(SheetValues) : sign * SheetValues[i] < 0}

\* the rendered list is the first ShowCap of the listable records in the order of the
\* list, and the "... and N more" line counts the rest
ListRendered(sign) ==
    LET listed == s_out.body.listed
        count == Cardinality(Listable(sign))
        Shown(i) == \E k \in 1..Len(listed) : listed[k].mcf = KeyText(sheet[i + 1][1])
    IN /\ s_out.body.count = count
       /\ Len(listed) = (IF count < ShowCap THEN count ELSE ShowCap)
       /\ \A k \in 1..Len(listed) :
              \E i \in Listable(sign) :
                  /\ listed[k].mcf = KeyText(sheet[i + 1][1])
                  /\ listed[k].pl = SheetValues[i]
       /\ \A k, m \in 1..Len(listed) : k # m => listed[k].mcf # listed[m].mcf
       /\ \A k \in 1..(Len(listed) - 1) : sign * listed[k].pl <= sign * listed[k + 1].pl
       /\ \A i \in Listable(sign) :
              ~Shown(i) => \A k \in 1..Len(listed) : sign * listed[k].pl <= sign * SheetValues[i]
       /\ s_out.body.more_shown <=> count > ShowCap
       /\ s_out.body.more_shown => s_out.body.more = count - ShowCap

\* C18: the profit list consists of exactly the records with Net Profit/Loss > 0 in
\* descending order of it, the loss list of exactly the records with Net Profit/Loss < 0
\* in ascending order; at most the first 20 are rendered, and a "... and N more" line
\* appears exactly when the count exceeds 20, with N = count - 20.
C18_ShowLists ==
    /\ ShowAnswer(-1) => ListRendered(-1)
    /\ ShowAnswer(1) => ListRendered(1)

\* C18 witness: a profit list of 22 records of two different values: 20 are rendered,
\* the greater values first, and the line says 2 more
C18_Witness ==
    /\ ShowAnswer(-1)
    /\ s_out.body.count = 22
    /\ Len(s_out.body.listed) = ShowCap
    /\ s_out.body.listed[1].pl > s_out.body.listed[ShowCap].pl
    /\ s_out.body.more_shown
    /\ s_out.body.more = 2

-----------------------------------------------------------------------------
(* Properties of the load, checked under SpecClassify. *)

\* the Row Table has been loaded from a sheet that carries a Loan Amount column
LoadedWide == session.loaded /\ ColumnOf(sheet, LOAN_AMOUNT) # 0

\* C19: after a load every numeric attribute of every record (Loan Amount, the
\* expected and actual payouts, Net Profit/Loss, the revenues, Taxable Amount) holds a
\* number in the Row Table, 0 when the cell is blank or not numeric.
C19_NumericCoercionClaim ==
    LoadedWide =>
        \A i \in 1..Len(results_df) :
            /\ results_df[i].loan =
                   Num(ToNumeric(sheet[i + 1][ColumnOf(sheet, LOAN_AMOUNT)]))
            /\ results_df[i].cp2_actual =
                   ToNumeric(sheet[i + 1][ColumnOf(sheet, ACTUAL_CP2_PAYOUT)])
            /\ results_df[i].pl = ToNumeric(sheet[i + 1][ColumnOf(sheet, NET_PL)])

-----------------------------------------------------------------------------
(* Properties of execute_sheet_action, checked under SpecExec (continued). *)

\* the cell writes the last call makes, in order, when none of them raises
IntendedWrites ==
    ActionPlan(call.action,
               Params(call.loss_mcf, call.profit_mcf, call.mcf, call.column, call.value),
               call.pre, call.df).writes

\* the number of the cell write that raised in the last call (remote call 2 + k is the
\* k-th write)
FailedWrite == call.fault - 2

\* the last call is a mutation whose k-th cell write raised
WriteRaised == call.action # "none" /\ FailedWrite >= 1

\* the value the first n writes leave in cell (r, c): that of the last of them aimed at
\* the cell
LastWritten(n, r, c) ==
    LET aimed == {j \in 1..n : IntendedWrites[j].r = r /\ IntendedWrites[j].c = c}
    IN IntendedWrites[CHOOSE j \in aimed : \A m \in aimed : m <= j].v

\* C20: if the k-th remote cell write of a mutation raises, the cells written by its
\* first k-1 writes keep their new values in the live sheet (for cover_loss the header
\* cells and the loss row, written before the profit row), every other cell is as it
\* was, and the action returns only an error result.
C20_NoRollback ==
    /\ [](WriteRaised =>
            /\ FailedWrite <= Len(IntendedWrites)
            /\ \A j \in 1..(FailedWrite - 1) :
                   /\ IntendedWrites[j].c <= Len(call.post[IntendedWrites[j].r])
                   /\ call.post[IntendedWrites[j].r][IntendedWrites[j].c]
                          = LastWritten(FailedWrite - 1, IntendedWrites[j].r,
                                        IntendedWrites[j].c)
            /\ Len(call.post) = Len(call.pre)
            /\ \A r \in 1..Len(call.post) : \A c \in 1..Len(call.post[r]) :
                   (\A j \in 1..(FailedWrite - 1) :
                        IntendedWrites[j].r # r \/ IntendedWrites[j].c # c)
                   => call.post[r][c] = (IF c <= Len(call.pre[r]) THEN call.pre[r][c]
                                         ELSE Blank)
            /\ call.results = <<ErrException>>)
    /\ [][call' # call => sheet' = call'.post]_vars

\* C20 witness: a cover_loss on a sheet without the tracking columns whose fifth cell
\* write, the first of the profit row, raised: the header cell and the loss row's note
\* are in the live sheet, the profit row has none, and the one result is the error
C20_Witness ==
    /\ call.action = "cover_loss"
    /\ call.loss_mcf # call.profit_mcf
    /\ call.fault = 7
    /\ ColumnOf(call.pre, ADJUSTED_PL) = 0
    /\ ColumnOf(call.post, ADJUSTED_PL) # 0
    /\ \E v \in {Str("Covered by"), Str("Partially covered by")} :
           CellUnder(call.post, call.loss_mcf, ADJUSTMENT_NOTE, v)
    /\ \A v \in {Str("Covered"), Str("Partially covered")} :
           ~CellUnder(call.post, call.profit_mcf, ADJUSTMENT_NOTE, v)
    /\ call.results = <<ErrException>>
    /\ sheet = call.post

\* the rows of the live sheet, before the last call, whose first cell is the key
RowsCarrying(key) == {i \in 1..Len(call.pre) : KeyText(call.pre[i][1]) = key}

\* the first row of the live sheet carrying one of the keys the last call names
FirstMatches ==
    {ScanFirst(call.pre, k) : k \in {call.loss_mcf, call.profit_mcf, call.mcf}}

\* C21: when a key occurs in more than one row, every mutation (cover_loss,
\* mark_reviewed, update_value) acts on the first matching row only: the amounts are
\* those of the first matching record of the snapshot and every data cell written is in
\* the first matching row of the live sheet.
C21_FirstMatchClaim ==
    (call.action # "none" /\ call.fault = 0) =>
        /\ \A k \in 1..Len(call.writes) :
               call.writes[k].r > 1 => call.writes[k].r \in FirstMatches
        /\ (call.action = "cover_loss" /\ Len(call.writes) >= 4) =>
               {call.writes[k].v : k \in {j \in 1..Len(call.writes) :
                                             call.writes[j].r > 1 /\ call.writes[j].v.num}}
                 = {Num(0), Num(SnapshotPL(call.df, call.profit_mcf)
                                  - Abs(SnapshotPL(call.df, call.loss_mcf)))}

\* the effective P/L of data row i of grid g: the Adjusted P&L cell where one was
\* written, Net Profit/Loss otherwise
EffectivePL(g, i) ==
    LET adj == ColumnOf(g, ADJUSTED_PL)
    IN IF adj # 0 /\ g[i][adj] # Blank
       THEN ToNumeric(g[i][adj])
       ELSE ToNumeric(g[i][ColumnOf(g, NET_PL)])

EffectiveTotal(g) == SeqSum([i \in 1..(Len(g) - 1) |-> EffectivePL(g, i + 1)])
NetTotal(g) == SeqSum([i \in 1..(Len(g) - 1) |-> ToNumeric(g[i + 1][ColumnOf(g, NET_PL)])])

\* a cover_loss on a sheet without adjustments, with a freshly loaded Row Table, in
\* which no remote call raised
FirstCover ==
    /\ call.action = "cover_loss"
    /\ call.fault = 0
    /\ call.df = LoadMasterReconciliation(call.pre)
    /\ ColumnOf(call.pre, ADJUSTED_PL) = 0

\* C25 (as claimed): after a cover_loss on a sheet without adjustments the effective
\* P/L summed over all records equals the sum of Net Profit/Loss, also when the named
\* loss key has a non-negative Net Profit/Loss.
C25_ConservationClaim ==
    FirstCover => EffectiveTotal(call.post) = NetTotal(call.post)

\* the Adjusted P&L values the recorded call wrote, each with its cell
AdjustedWrites(c) == SelectSeq(c.writes, LAMBDA w : w.r > 1 /\ w.v.num)

\* the statuses of the results the recorded call returned
Statuses(c) == [k \in 1..Len(c.results) |-> c.results[k].status]

\* the recorded call c is a cover_loss in which no remote call raised, made with the
\* Row Table a reload of the sheet gives
LoadedCover(c) ==
    /\ c.action = "cover_loss"
    /\ c.fault = 0
    /\ c.df = LoadMasterReconciliation(c.pre)

\* this step applies the cover_loss of the recorded call once more, to the sheet that
\* call left
CoverAgain ==
    /\ LoadedCover(call)
    /\ LoadedCover(call')
    /\ call'.loss_mcf = call.loss_mcf
    /\ call'.profit_mcf = call.profit_mcf
    /\ call'.pre = call.post

\* C26: a cover_loss applied a second time to the same pair of keys, the Row Table
\* reloaded in between, writes the same two Adjusted P&L values into the same cells as
\* the first application and returns the same status.
C26_CoverLossIdempotent ==
    [][CoverAgain =>
          /\ AdjustedWrites(call') = AdjustedWrites(call)
          /\ Statuses(call') = Statuses(call)]_vars

\* the second application has run: it found the adjusted values of the first in
\* place and wrote the same two Adjusted P&L values over them
C26_Witness ==
    /\ LoadedCover(call)
    /\ steps = MaxExecSteps
    /\ ColumnOf(call.pre, ADJUSTED_PL) # 0
    /\ Len(AdjustedWrites(call)) = 2
    /\ \A k \in 1..2 :
          call.pre[AdjustedWrites(call)[k].r][AdjustedWrites(call)[k].c]
             = AdjustedWrites(call)[k].v
    /\ call.results[1].status = "success"

\* the header row of the sheet at the start: the columns the source data stands in
OriginalHeader == <<Str(MCF_NUMBER), Str(NET_PL)>>

TrackingCall == call.action \in {"cover_loss", "mark_reviewed"}

\* C27: a cover_loss or mark_reviewed on a sheet that started without tracking columns,
\* whichever of its remote calls raises, writes only into columns to the right of the
\* original header and leaves every cell of the original columns as it was.
C27_SourceColumnsKept ==
    TrackingCall =>
        /\ \A k \in 1..Len(call.writes) : call.writes[k].c > Len(OriginalHeader)
        /\ \A r \in 1..Len(call.pre) : \A c \in 1..Len(OriginalHeader) :
              call.post[r][c] = call.pre[r][c]
        /\ \A c \in 1..Len(OriginalHeader) : sheet[1][c] = OriginalHeader[c]

\* a mark_reviewed that followed a cover_loss wrote some of its cells and then failed
C27_Witness ==
    /\ call.action = "mark_reviewed"
    /\ ColumnOf(call.pre, ADJUSTED_PL) # 0
    /\ call.fault > 2
    /\ Len(call.writes) >= 3

\* the tracking header a written data-row value belongs under
HeaderFor(v) ==
    IF v.num THEN ADJUSTED_PL
    ELSE IF v = Str("Reviewed") THEN REVIEW_STATUS
    ELSE IF v = Str("timestamp") THEN REVIEW_DATE
    ELSE ADJUSTMENT_NOTE

\* C28 (as claimed): after a cover_loss or mark_reviewed, whichever remote writes have
\* failed so far, each of the four tracking headers stands at most once in the header
\* row, and every adjusted value, note, review status and review date the call wrote
\* stands in the column that carries the corresponding header.
C28_TrackingColumnsClaim ==
    TrackingCall =>
        /\ \A h \in {ADJUSTED_PL, ADJUSTMENT_NOTE, REVIEW_STATUS, REVIEW_DATE} :
              Cardinality({c \in 1..Len(call.post[1]) : call.post[1][c] = Str(h)}) <= 1
        /\ \A k \in 1..Len(call.writes) :
              call.writes[k].r > 1 =>
                  call.post[1][call.writes[k].c] = Str(HeaderFor(call.writes[k].v))

-----------------------------------------------------------------------------
(* Properties of the classifiers, checked under SpecClassify (continued). *)

\* the classified message is the help text's "Who is the customer for <key>?"
CustomerByKeyMessage ==
    \E k \in ClassifyKeys : s_query = <<"who", "is", "the", "customer", "for", k>>

\* C22: in chat_with_ai a message of the form "Who is the customer for MCF-<key>?"
\* whose key is present in the table is answered with that record's details (customer
\* name, loan product, loan amount, net P&L), not with a customer-name search result.
C22_CustomerByKeyClaim ==
    (ClassifiedChat /\ CustomerByKeyMessage /\ KeyInTable) =>
        /\ s_out.response.type = "answer"
        /\ s_out.response.kind = "record_details"
        /\ s_out.response.mcf = ExtractMcfs(s_query)[1]

-----------------------------------------------------------------------------
(* Properties of the suggestions of the enhanced fragment, checked under        *)
(* SpecSearch.                                                                  *)

\* a partner-name query of the enhanced fragment matched no row
PartnerNoMatch == s_out.op = "enhanced" /\ s_out.count = 0

\* a customer-name query of the enhanced fragment matched no row
CustomerNoMatch == s_out.op = "customer" /\ s_out.count = 0

\* the names of the table that contain the query, compared case-insensitively
NamesContaining(names) == {n \in names : IsSubstring(Lower(s_query), Lower(n))}

PartnerNames == {s_df[i].cp1 : i \in 1..Len(s_df)} \cup {s_df[i].cp2 : i \in 1..Len(s_df)}

\* C23: in the enhanced fragment, when a partner-name query matches no rows, the
\* answer suggests the distinct CP1/CP2 names that contain the query as a
\* case-insensitive substring, at most 5 of them.
C23_PartnerSuggestions ==
    PartnerNoMatch =>
        /\ Range(s_out.similar) \subseteq NamesContaining(PartnerNames)
        /\ \A j, k \in 1..Len(s_out.similar) : j # k => s_out.similar[j] # s_out.similar[k]
        /\ Len(s_out.similar) <= SuggestCap
        /\ Len(s_out.similar) < SuggestCap =>
               Range(s_out.similar) = NamesContaining(PartnerNames)

\* C23 witness: a query that matches no row of a table whose records carry partner
\* names, answered with the suggestion list
C23_Witness ==
    /\ PartnerNoMatch
    /\ s_query = <<"a", " ", "b">>
    /\ \E n \in PartnerNames : n # <<>>
    /\ Range(s_out.similar) = NamesContaining(PartnerNames)

\* C29: in the enhanced fragment, whenever search_in_dataframe returns no rows for the
\* partner-name query on both CP1 Name and CP2 Name (or for the customer-name query on
\* Customer Name), no distinct name in those columns contains the query as a
\* case-insensitive substring, so the suggestion list is empty.
C29_SuggestionsEmpty ==
    /\ PartnerNoMatch =>
           /\ NamesContaining(PartnerNames) = {}
           /\ s_out.similar = <<>>
    /\ CustomerNoMatch =>
           /\ NamesContaining({s_df[i].customer : i \in 1..Len(s_df)}) = {}
           /\ s_out.similar = <<>>

\* C29 witness: a customer-name query of two words, one of them a Customer Name of the
\* table, that no tier of the search matches, answered with an empty suggestion list
C29_Witness ==
    /\ CustomerNoMatch
    /\ s_query = <<"a", " ", "b">>
    /\ \A i \in 1..Len(s_df) : s_df[i].customer = <<"A">>
    /\ s_out.similar = <<>>


-----------------------------------------------------------------------------
(* Properties of overlapping mutations, checked under SpecRace *)

TrackingHeaders == {ADJUSTED_PL, ADJUSTMENT_NOTE, REVIEW_STATUS, REVIEW_DATE}

\* how many cells of a row hold v
Occurrences(row, v) == Cardinality({i \in 1..Len(row) : row[i] = v})

\* the column whose absence makes the code append h (lines 694, 754)
TestedFor(h) == IF h \in {ADJUSTED_PL, ADJUSTMENT_NOTE} THEN ADJUSTED_PL ELSE REVIEW_STATUS

\* this step is session p appending the header cell h, having read a header row
\* without the column tested for h
AppendsHeader(p, h) ==
    /\ inflight[p].pc = "writing"
    /\ inflight'[p].writes = Tail(inflight[p].writes)
    /\ Head(inflight[p].writes) =
           [r |-> 1, c |-> Len(inflight[p].headers) + IndexOf(<<TestedFor(h), h>>, h),
            v |-> Str(h)]
    /\ Str(TestedFor(h)) \notin Range(inflight[p].headers)

DuplicateHeader == \E h \in TrackingHeaders : Occurrences(sheet[1], Str(h)) >= 2

\* C24: a tracking header stands twice in the live header row only after mutations have
\* overlapped, and the step that duplicates it is the append of a session that observed
\* the tested column absent; mutations run one after the other never duplicate a
\* tracking column, whichever of their writes fail.
C24_DuplicateOnlyByRace ==
    /\ [](DuplicateHeader => \E p \in Sessions : inflight[p].overlapped)
    /\ [][\A h \in TrackingHeaders :
             (Occurrences(sheet[1], Str(h)) < 2 /\ Occurrences(sheet'[1], Str(h)) >= 2)
                 => \E p \in Sessions : AppendsHeader(p, h)]_vars

\* both sessions observed "Adjusted P&L" absent, both appended it, and the live header
\* row holds it twice
C24_Witness ==
    /\ Occurrences(sheet[1], Str(ADJUSTED_PL)) >= 2
    /\ \A p \in Sessions :
          /\ inflight[p].headers # <<>>
          /\ Str(ADJUSTED_PL) \notin Range(inflight[p].headers)
          /\ inflight[p].pc = "idle"

-----------------------------------------------------------------------------
(* Properties of the cover-loss intent, checked under SpecClassify *)

\* the classified message asks to cover a loss
CoverLossAsked ==
    /\ Classified
    /\ Has(s_query, "cover")
    /\ Has(s_query, "loss")

\* the records of the table with a negative, with a positive Net Profit/Loss
Negative(df) == {i \in 1..Len(df) : df[i].pl < 0}
Positive(df) == {i \in 1..Len(df) : df[i].pl > 0}

\* the classifier answered with an action that execute_sheet_action ran as a
\* cover_loss of the keys loss_mcf and profit_mcf
CoverApplied(loss_mcf, profit_mcf) ==
    /\ s_out.response.type = "action"
    /\ s_out.response.action_type = "cover_loss"
    /\ s_out.response.loss_mcf = loss_mcf
    /\ s_out.response.profit_mcf = profit_mcf
    /\ call.action = "cover_loss"
    /\ call.loss_mcf = loss_mcf
    /\ call.profit_mcf = profit_mcf

\* C30: a cover-loss message with two or more keys applies cover_loss with the first
\* extracted key as loss_key and the second as profit_key, whatever their signs; with
\* fewer than two keys (none, as in the quick action, or exactly one) any key is ignored:
\* when the table has no record with negative or none with positive Net Profit/Loss the
\* classifier returns an answer and execute_sheet_action is not called, otherwise
\* cover_loss is applied with the key of a record of minimum Net Profit/Loss as
\* loss_key and of a record of maximum Net Profit/Loss as profit_key.
C30_PairSelection ==
    CoverLossAsked =>
        LET mcfs == ExtractMcfs(s_query) IN
        IF Len(mcfs) >= 2
        THEN CoverApplied(mcfs[1], mcfs[2])
        ELSE IF Negative(results_df) = {} \/ Positive(results_df) = {}
        THEN /\ s_out.response.type = "answer"
             /\ call = NoCall
             /\ results_df = LoadMasterReconciliation(sheet)
        ELSE \E i \in Negative(call.df), j \in Positive(call.df) :
                /\ \A k \in 1..Len(call.df) : call.df[i].pl <= call.df[k].pl
                /\ \A k \in 1..Len(call.df) : call.df[j].pl >= call.df[k].pl
                /\ CoverApplied(call.df[i].mcf, call.df[j].mcf)

\* a message with exactly one key was answered by a cover_loss of two other records,
\* the one of minimum and the one of maximum Net Profit/Loss
C30_Witness ==
    /\ CoverLossAsked
    /\ Len(ExtractMcfs(s_query)) = 1
    /\ InSnapshot(call.df, ExtractMcfs(s_query)[1])
    /\ call.action = "cover_loss"
    /\ call.loss_mcf # ExtractMcfs(s_query)[1]
    /\ call.profit_mcf # ExtractMcfs(s_query)[1]
    /\ Len(call.writes) >= 4

=============================================================================
